---------------------------- MODULE Spec2Model ----------------------------
(***************************************************************************)
(* SpaceDebris: the polygon/collision core and the game session.           *)
(*                                                                         *)
(* Numbers.  The program computes in float64; the model computes in exact  *)
(* integers on a fixed-point grid:                                         *)
(*   - lengths and velocities are in units of 1/Unit pixel;                *)
(*   - angles are in degrees (TwoPi = 360), Sin and Cos return the sine    *)
(*     and cosine scaled by TrigScale, from a table;                       *)
(*   - a product with a fractional factor is truncated towards zero;       *)
(*   - comparisons between quotients (PointInPolygon,                      *)
(*     LineSegmentsIntersect) are decided exactly by cross-multiplying;    *)
(*   - times are in milliseconds;                                          *)
(*   - colours are 8-bit <<r, g, b, a>>;                                   *)
(*   - the fade progress is counted in increments of FadeSpeed, which is   *)
(*     1/FadeTicks (FadeTicks = 0 stands for FadeSpeed = 0).  Where the    *)
(*     float64 sum or the float64 interpolation differs from the exact     *)
(*     value, the difference is taken from tables computed in IEEE 754     *)
(*     double arithmetic (ShortSums, LowTruncations).                      *)
(***************************************************************************)
EXTENDS Integers, Sequences, FiniteSets, TLC

VARIABLES
    \* Game (src/main.go:28-40)
    asteroids, player, bullets, lastBulletTime, score, state, gameOverReason,
    \* environment: the wall clock read by time.Now(), the number of Update calls
    now, ticks,
    \* the last Update call: its inputs and the session at the points inside
    \* checkCollisions that the collision rules speak about
    probe,
    \* PolygonObject and its functions called on their own: arguments, the last
    \* call with its result, and what the calls so far did to argA
    argA, argB, argP, call, hist

gameVars == <<asteroids, player, bullets, lastBulletTime, score, state,
              gameOverReason, now, ticks, probe>>
geomVars == <<argA, argB, argP, call, hist>>
vars == <<gameVars, geomVars>>

----------------------------------------------------------------------------
(* Fixed-point arithmetic *)

Unit == 100
TrigScale == 1000
TwoPi == 360

Abs(x) == IF x < 0 THEN -x ELSE x

\* a/b truncated towards zero, as a float product converted back to the grid
Trunc(a, b) == IF a >= 0 THEN a \div b ELSE -((-a) \div b)

\* F applied to the value of v: v is evaluated once and F gets the value, as a
\* statement that assigns a local variable and goes on
Then(v, F(_)) == CHOOSE r \in { F(x) : x \in {v} } : TRUE

SinTable == <<
    0, 17, 35, 52, 70, 87, 105, 122, 139, 156, 174, 191, 208, 225, 242, 259,
    276, 292, 309, 326, 342, 358, 375, 391, 407, 423, 438, 454, 469, 485, 500,
    515, 530, 545, 559, 574, 588, 602, 616, 629, 643, 656, 669, 682, 695, 707,
    719, 731, 743, 755, 766, 777, 788, 799, 809, 819, 829, 839, 848, 857, 866,
    875, 883, 891, 899, 906, 914, 921, 927, 934, 940, 946, 951, 956, 961, 966,
    970, 974, 978, 982, 985, 988, 990, 993, 995, 996, 998, 999, 999, 1000, 1000 >>

\* math.Sin of an angle in degrees, scaled by TrigScale
Sin(deg) ==
    LET d == deg % TwoPi
    IN  IF d <= 90 THEN SinTable[d + 1]
        ELSE IF d <= 180 THEN SinTable[180 - d + 1]
        ELSE IF d <= 270 THEN -SinTable[d - 180 + 1]
        ELSE -SinTable[360 - d + 1]

\* math.Cos of an angle in degrees, scaled by TrigScale
Cos(deg) == Sin(deg + 90)

----------------------------------------------------------------------------
(* Colours *)

White == <<255, 255, 255, 255>>
Blue == <<0, 0, 255, 255>>
RedFlash == <<255, 50, 50, 255>>
RedColor == <<255, 100, 100, 255>>

ghostTrailLength == 5

----------------------------------------------------------------------------
(* PolygonObject (src/polygon_object.go) *)

Vec(x, y) == [X |-> x, Y |-> y]

\* the struct literal shared by CreateAsteroid and CreatePlayer
NewPolygon(vertices) ==
    [ Vertices       |-> vertices,
      Position       |-> Vec(0, 0),
      Velocity       |-> Vec(0, 0),
      Rotation       |-> 0,
      RotationSpeed  |-> 0,
      Scale          |-> 1,
      Color          |-> White,
      FadeStartColor |-> White,
      FadeEndColor   |-> White,
      FadeProgress   |-> 0,
      FadeTicks      |-> 0,
      IsFading       |-> FALSE,
      drawCount      |-> 0,
      Trail          |-> << >> ]

CreateAsteroid(baseRadius, irregularity, numVertices) ==
    LET angleStep == TwoPi \div numVertices
        vertex(i) ==
            LET angle  == i * angleStep
                radius == baseRadius
                          + Trunc((Sin(angle * 3) + Cos(angle * 5)) * irregularity, TrigScale)
            IN  Vec(Trunc(Cos(angle) * radius, TrigScale),
                    Trunc(Sin(angle) * radius, TrigScale))
    IN  NewPolygon([k \in 1..numVertices |-> vertex(k - 1)])

CreatePlayer(size) ==
    NewPolygon(<<
        Vec(0, -size),
        Vec(-Trunc(size * 3, 10), -Trunc(size * 2, 10)),
        Vec(-Trunc(size * 7, 10), Trunc(size * 3, 10)),
        Vec(-Trunc(size * 4, 10), Trunc(size * 6, 10)),
        Vec(-Trunc(size * 2, 10), Trunc(size * 8, 10)),
        Vec(0, Trunc(size * 6, 10)),
        Vec(Trunc(size * 2, 10), Trunc(size * 8, 10)),
        Vec(Trunc(size * 4, 10), Trunc(size * 6, 10)),
        Vec(Trunc(size * 7, 10), Trunc(size * 3, 10)),
        Vec(Trunc(size * 3, 10), -Trunc(size * 2, 10)) >>)

getTransformedVertices(p) ==
    LET cos == Cos(p.Rotation)
        sin == Sin(p.Rotation)
        tr(vertex) ==
            LET scaledX  == vertex.X * p.Scale
                scaledY  == vertex.Y * p.Scale
                rotatedX == Trunc(scaledX * cos - scaledY * sin, TrigScale)
                rotatedY == Trunc(scaledX * sin + scaledY * cos, TrigScale)
            IN  Vec(rotatedX + p.Position.X, rotatedY + p.Position.Y)
    IN  [i \in 1..Len(p.Vertices) |-> tr(p.Vertices[i])]

Box(minX, minY, maxX, maxY) == [MinX |-> minX, MinY |-> minY, MaxX |-> maxX, MaxY |-> maxY]

\* the least and the greatest element of a non-empty set of numbers
Least(S) == CHOOSE m \in S : \A x \in S : m <= x
Greatest(S) == CHOOSE m \in S : \A x \in S : m >= x

\* the bounding box of a vertex list: the loop of GetBoundingBox keeps the least
\* and the greatest coordinate seen
BoxOf(tv) ==
    LET xs == { tv[i].X : i \in 1..Len(tv) }
        ys == { tv[i].Y : i \in 1..Len(tv) }
    IN  Box(Least(xs), Least(ys), Greatest(xs), Greatest(ys))

GetBoundingBox(p) ==
    LET transformedVertices == getTransformedVertices(p)
    IN  IF Len(transformedVertices) = 0 THEN Box(0, 0, 0, 0)
        ELSE BoxOf(transformedVertices)

\* variant: strict comparisons, boxes that only touch do not overlap
BoundingBoxesOverlapStrict(box1, box2) ==
    /\ box1.MinX < box2.MaxX /\ box1.MaxX > box2.MinX
    /\ box1.MinY < box2.MaxY /\ box1.MaxY > box2.MinY

BoundingBoxesOverlap(box1, box2) ==
    /\ box1.MinX <= box2.MaxX /\ box1.MaxX >= box2.MinX
    /\ box1.MinY <= box2.MaxY /\ box1.MaxY >= box2.MinY

\* point.X < (xj-xi)*(point.Y-yi)/(yj-yi)+xi, decided exactly; only evaluated
\* for an edge with yi # yj
LeftOfEdge(point, vi, vj) ==
    LET lhs == (point.X - vi.X) * (vj.Y - vi.Y)
        rhs == (vj.X - vi.X) * (point.Y - vi.Y)
    IN  IF vj.Y - vi.Y > 0 THEN lhs < rhs ELSE lhs > rhs

\* variant: the loop pairs each vertex with the one before it and never closes
\* the polygon from the last vertex to the first
PointInPolygonOpen(point, vertices) ==
    LET n == Len(vertices)
        crosses(i) ==
            LET vi == vertices[i]
                vj == vertices[i - 1]
            IN  /\ (vi.Y > point.Y) # (vj.Y > point.Y)
                /\ LeftOfEdge(point, vi, vj)
    IN  IF n < 3 THEN FALSE
        ELSE Cardinality({ i \in 2..n : crosses(i) }) % 2 = 1

\* the loop of PointInPolygon flips `inside` once for every index i whose edge
\* (vertices[j], vertices[i]), j the index before i, is crossed by the ray
PointInPolygon(point, vertices) ==
    LET n == Len(vertices)
        crosses(i) ==
            LET vi == vertices[i]
                vj == vertices[IF i = 1 THEN n ELSE i - 1]
            IN  /\ (vi.Y > point.Y) # (vj.Y > point.Y)
                /\ LeftOfEdge(point, vi, vj)
    IN  IF n < 3 THEN FALSE
        ELSE Cardinality({ i \in 1..n : crosses(i) }) % 2 = 1

LineSegmentsIntersect(p1, p2, p3, p4) ==
    LET d1 == Vec(p2.X - p1.X, p2.Y - p1.Y)
        d2 == Vec(p4.X - p3.X, p4.Y - p3.Y)
        d3 == Vec(p1.X - p3.X, p1.Y - p3.Y)
        cross1 == d1.X * d2.Y - d1.Y * d2.X
        cross2 == d3.X * d2.Y - d3.Y * d2.X
        cross3 == d3.X * d1.Y - d3.Y * d1.X
        \* 0 <= c/cross1 <= 1
        unit(c) == IF cross1 > 0 THEN 0 <= c /\ c <= cross1
                                 ELSE cross1 <= c /\ c <= 0
    IN  IF cross1 = 0 THEN FALSE
        ELSE unit(cross2) /\ unit(cross3)

\* the i-th edge of a vertex list, closing the polygon
EdgeStart(vs, i) == vs[i]
EdgeEnd(vs, i) == vs[(i % Len(vs)) + 1]

\* variant: no bounding-box check before the detailed tests
PolygonsCollideNoPrecheck(poly1, poly2) ==
    LET vertices1 == getTransformedVertices(poly1)
        vertices2 == getTransformedVertices(poly2)
    IN  IF Len(vertices1) < 3 \/ Len(vertices2) < 3 THEN FALSE
        ELSE IF \E i \in 1..Len(vertices1) : PointInPolygon(vertices1[i], vertices2) THEN TRUE
        ELSE IF \E i \in 1..Len(vertices2) : PointInPolygon(vertices2[i], vertices1) THEN TRUE
        ELSE \E i \in 1..Len(vertices1), j \in 1..Len(vertices2) :
                LineSegmentsIntersect(EdgeStart(vertices1, i), EdgeEnd(vertices1, i),
                                      EdgeStart(vertices2, j), EdgeEnd(vertices2, j))

\* variant: polygons of fewer than 3 vertices are tested like the others
PolygonsCollideAnyPolygon(poly1, poly2) ==
    LET box1 == GetBoundingBox(poly1)
        box2 == GetBoundingBox(poly2)
        vertices1 == getTransformedVertices(poly1)
        vertices2 == getTransformedVertices(poly2)
    IN  IF ~BoundingBoxesOverlap(box1, box2) THEN FALSE
        ELSE IF \E i \in 1..Len(vertices1) : PointInPolygon(vertices1[i], vertices2) THEN TRUE
        ELSE IF \E i \in 1..Len(vertices2) : PointInPolygon(vertices2[i], vertices1) THEN TRUE
        ELSE \E i \in 1..Len(vertices1), j \in 1..Len(vertices2) :
                LineSegmentsIntersect(EdgeStart(vertices1, i), EdgeEnd(vertices1, i),
                                      EdgeStart(vertices2, j), EdgeEnd(vertices2, j))

PolygonsCollide(poly1, poly2) ==
    LET box1 == GetBoundingBox(poly1)
        box2 == GetBoundingBox(poly2)
        vertices1 == getTransformedVertices(poly1)
        vertices2 == getTransformedVertices(poly2)
    IN  IF ~BoundingBoxesOverlap(box1, box2) THEN FALSE
        ELSE IF Len(vertices1) < 3 \/ Len(vertices2) < 3 THEN FALSE
        ELSE IF \E i \in 1..Len(vertices1) : PointInPolygon(vertices1[i], vertices2) THEN TRUE
        ELSE IF \E i \in 1..Len(vertices2) : PointInPolygon(vertices2[i], vertices1) THEN TRUE
        ELSE \E i \in 1..Len(vertices1), j \in 1..Len(vertices2) :
                LineSegmentsIntersect(EdgeStart(vertices1, i), EdgeEnd(vertices1, i),
                                      EdgeStart(vertices2, j), EdgeEnd(vertices2, j))

Nil == << >>

SetPosition(p, x, y) == [p EXCEPT !.Position = Vec(x, y)]
SetRotation(p, angle) == [p EXCEPT !.Rotation = angle]
\* variant: the rotation is set to the angle
RotateTo(p, angle) == [p EXCEPT !.Rotation = angle]

Rotate(p, angle) == [p EXCEPT !.Rotation = p.Rotation + angle]
SetVelocity(p, vx, vy) == [p EXCEPT !.Velocity = Vec(vx, vy)]
SetRotationSpeed(p, speed) == [p EXCEPT !.RotationSpeed = speed]
\* variant: the colour is set and a fade in progress goes on
SetColorKeepFade(p, c) == [p EXCEPT !.Color = c]

SetColor(p, c) == [p EXCEPT !.Color = c, !.IsFading = FALSE]

\* duration in ticks; FadeSpeed = 1/duration
StartFade(p, targetColor, duration) ==
    [p EXCEPT !.FadeStartColor = p.Color,
              !.FadeEndColor = targetColor,
              !.FadeProgress = 0,
              !.FadeTicks = duration,
              !.IsFading = TRUE]

\* The durations N, among 1..15, 60 and 120, for which N additions of
\* float64(1/N) to 0.0 give a float64 below 1.0 (0.9999999999999999 or less);
\* one more addition reaches 1.0.  For the other durations the N-th sum is
\* at least 1.0.
ShortSums == {6, 7, 10, 13, 14, 15, 120}

\* the float64 progress after k additions of float64(1/N) is at least 1.0
ReachesOne(k, N) == k > N \/ (k = N /\ N \notin ShortSums)

\* <<s, e, k, N>>: for the progress p reached by k additions of float64(1/N),
\* p < 1.0, the float64 value of s*(1-p) + e*p lies just below the integer
\* that the exact value (s*(N-k) + e*k)/N is or exceeds, so uint8() gives one
\* less than the exact floor.  Listed for s, e in {0, 50, 100, 255}, N in 1..7
\* (every k) and N in {60, 120} (k up to 13), without the pairs (50,50),
\* (100,100), (50,100), (100,50), whose result depends on whether the build
\* fuses the multiplication and the addition; for the listed domain it does not.
LowTruncations == {
    <<50, 0, 3, 5>>, <<100, 0, 3, 5>>, <<255, 0, 3, 5>>, <<255, 50, 3, 5>>,
    <<255, 100, 3, 5>>, <<50, 0, 4, 5>>, <<100, 0, 4, 5>>, <<255, 0, 4, 5>>,
    <<255, 50, 4, 5>>, <<0, 50, 6, 6>>, <<0, 100, 6, 6>>, <<0, 255, 6, 6>>,
    <<50, 255, 6, 6>>, <<100, 255, 6, 6>>, <<255, 255, 3, 7>>, <<0, 50, 7, 7>>,
    <<0, 100, 7, 7>>, <<0, 255, 7, 7>>, <<50, 100, 7, 7>>, <<50, 255, 7, 7>>,
    <<100, 255, 7, 7>>, <<0, 255, 12, 60>> }

\* progress: k additions of float64(1/den), k = num (negative: below 0.0);
\* uint8(float) truncates
interpolateColor(startColor, endColor, num, den) ==
    LET clamped == num < 0 \/ ReachesOne(num, den)
        n == IF num < 0 THEN 0 ELSE IF ReachesOne(num, den) THEN den ELSE num
        channel(s, e) ==
            (s * (den - n) + e * n) \div den
                - (IF ~clamped /\ <<s, e, n, den>> \in LowTruncations THEN 1 ELSE 0)
    IN  [c \in 1..4 |-> channel(startColor[c], endColor[c])]

updateFade(p) ==
    IF ~p.IsFading THEN p
    ELSE LET progress == p.FadeProgress + 1
         IN  IF p.FadeTicks > 0 /\ ReachesOne(progress, p.FadeTicks)
             THEN [p EXCEPT !.FadeProgress = p.FadeTicks,
                            !.Color = p.FadeEndColor,
                            !.IsFading = FALSE]
             ELSE [p EXCEPT !.FadeProgress = progress,
                            !.Color = IF p.FadeTicks > 0
                                      THEN interpolateColor(p.FadeStartColor, p.FadeEndColor,
                                                            progress, p.FadeTicks)
                                      ELSE p.FadeStartColor]

\* variant: the far edge itself is wrapped too
WrapAxisFarEdge(x, size) == IF x < 0 THEN x + size ELSE IF x >= size THEN x - size ELSE x

\* one axis of the wrap: a single correction step
WrapAxis(x, size) == IF x < 0 THEN x + size ELSE IF x > size THEN x - size ELSE x

\* variant: a rotation below 0 is left as it is
UpdateNoTurnUp(p, screenW, screenH, withWrapping) ==
    LET x == p.Position.X + p.Velocity.X
        y == p.Position.Y + p.Velocity.Y
        r == p.Rotation + p.RotationSpeed
        rotation == IF r > TwoPi THEN r - TwoPi ELSE r
        q == updateFade([p EXCEPT !.Rotation = rotation])
    IN  [q EXCEPT !.Position = IF withWrapping
                                THEN Vec(WrapAxis(x, screenW), WrapAxis(y, screenH))
                                ELSE Vec(x, y)]

Update(p, screenW, screenH, withWrapping) ==
    LET x == p.Position.X + p.Velocity.X
        y == p.Position.Y + p.Velocity.Y
        r == p.Rotation + p.RotationSpeed
        rotation == IF r > TwoPi THEN r - TwoPi ELSE IF r < 0 THEN r + TwoPi ELSE r
        q == updateFade([p EXCEPT !.Rotation = rotation])
    IN  [q EXCEPT !.Position = IF withWrapping
                                THEN Vec(WrapAxis(x, screenW), WrapAxis(y, screenH))
                                ELSE Vec(x, y)]

\* variant: the trail is never cut back to ghostTrailLength
DrawUntrimmed(p) ==
    IF Len(p.Vertices) < 3 THEN p
    ELSE LET drawCount == p.drawCount + 1
         IN  [p EXCEPT !.drawCount = drawCount,
                       !.Trail = IF drawCount % 4 = 0
                                 THEN <<getTransformedVertices(p)>> \o p.Trail
                                 ELSE p.Trail]

\* the polygons one Draw call strokes on the screen, in the order of the calls:
\* the loop over p.Trail from index 0, then the transformed vertices
Strokes(p) ==
    IF Len(p.Vertices) < 3 THEN <<>>
    ELSE p.Trail \o <<getTransformedVertices(p)>>

\* Draw: what it does to the object (drawCount and Trail); the rendering to
\* the screen changes no state of the object
Draw(p) ==
    IF Len(p.Vertices) < 3 THEN p
    ELSE LET drawCount == p.drawCount + 1
             transformedVertices == getTransformedVertices(p)
             pushed == <<transformedVertices>> \o p.Trail
         IN  [p EXCEPT !.drawCount = drawCount,
                       !.Trail = IF drawCount % 4 = 0
                                 THEN IF Len(pushed) > ghostTrailLength
                                      THEN SubSeq(pushed, 1, ghostTrailLength)
                                      ELSE pushed
                                 ELSE p.Trail]

----------------------------------------------------------------------------
(* Game (src/main.go) *)

screenWidth == 800 * Unit
screenHeight == 600 * Unit
bulletCooldown == 100

\* handlePlayerInput: 0.1 rad, 0.2 px, 5 px, 0.98
rotationSpeed == 6
acceleration == 20
maxSpeed == 500
frictionNum == 98
frictionDen == 100

\* createBullet
tipOffset == 15 * Unit
bulletSpeed == 8 * Unit
\* updateBullets
margin == 50 * Unit
\* splitAsteroid
minSize == 15 * Unit
\* CreatePlayer(20)
playerSize == 20 * Unit

Keys == {"Left", "Right", "Up", "Down", "Space", "Enter"}

\* the Game struct as a value, so that the steps of a tick compose
Session == [ asteroids |-> asteroids, player |-> player, bullets |-> bullets,
             lastBulletTime |-> lastBulletTime, score |-> score,
             state |-> state, gameOverReason |-> gameOverReason ]

RemoveAt(s, i) == SubSeq(s, 1, i - 1) \o SubSeq(s, i + 1, Len(s))

\* math.Sqrt for the speeds a tick can produce, rounded up to the grid, so
\* that a quotient by it, truncated, is not above the exact quotient
Sqrt(n) == CHOOSE r \in 0..(2 * maxSpeed) : (r = 0 \/ (r - 1) * (r - 1) < n) /\ n <= r * r

\* variant: the bullet gets the ship's velocity only, no muzzle velocity
createBulletAdrift(G) ==
    LET rot  == G.player.Rotation
        tipX == G.player.Position.X + Trunc(Sin(rot) * tipOffset, TrigScale)
        tipY == G.player.Position.Y - Trunc(Cos(rot) * tipOffset, TrigScale)
        bulletPolygon ==
            [ Vertices       |-> << Vec(-Unit, -Unit), Vec(Unit, -Unit),
                                    Vec(Unit, Unit), Vec(-Unit, Unit) >>,
              Position       |-> Vec(tipX, tipY),
              Velocity       |-> Vec(G.player.Velocity.X, G.player.Velocity.Y),
              Rotation       |-> 0,
              RotationSpeed  |-> 0,
              Scale          |-> 1,
              Color          |-> White,
              FadeStartColor |-> Nil,
              FadeEndColor   |-> Nil,
              FadeProgress   |-> 0,
              FadeTicks      |-> 0,
              IsFading       |-> FALSE,
              drawCount      |-> 0,
              Trail          |-> << >> ]
    IN  [G EXCEPT !.bullets = Append(G.bullets, bulletPolygon)]

createBullet(G) ==
    LET rot  == G.player.Rotation
        tipX == G.player.Position.X + Trunc(Sin(rot) * tipOffset, TrigScale)
        tipY == G.player.Position.Y - Trunc(Cos(rot) * tipOffset, TrigScale)
        bulletPolygon ==
            [ Vertices       |-> << Vec(-Unit, -Unit), Vec(Unit, -Unit),
                                    Vec(Unit, Unit), Vec(-Unit, Unit) >>,
              Position       |-> Vec(tipX, tipY),
              Velocity       |-> Vec(Trunc(Sin(rot) * bulletSpeed, TrigScale) + G.player.Velocity.X,
                                     -Trunc(Cos(rot) * bulletSpeed, TrigScale) + G.player.Velocity.Y),
              Rotation       |-> 0,
              RotationSpeed  |-> 0,
              Scale          |-> 1,
              Color          |-> White,
              FadeStartColor |-> Nil,
              FadeEndColor   |-> Nil,
              FadeProgress   |-> 0,
              FadeTicks      |-> 0,
              IsFading       |-> FALSE,
              drawCount      |-> 0,
              Trail          |-> << >> ]
    IN  [G EXCEPT !.bullets = Append(G.bullets, bulletPolygon)]

\* variant: each component is limited on its own
LimitSpeedPerAxis(vx, vy) ==
    LET limit(v) == IF v > maxSpeed THEN maxSpeed ELSE IF v < -maxSpeed THEN -maxSpeed ELSE v
    IN  Vec(limit(vx), limit(vy))

\* the velocity after the speed limit
LimitSpeed(vx, vy) ==
    IF vx * vx + vy * vy > maxSpeed * maxSpeed
    THEN Then(Sqrt(vx * vx + vy * vy), LAMBDA speed :
             Vec(Trunc(vx * maxSpeed, speed), Trunc(vy * maxSpeed, speed)))
    ELSE Vec(vx, vy)

\* variant: a shot is allowed as soon as the cooldown has elapsed
CooldownOverInclusive(G, t) == t - G.lastBulletTime >= bulletCooldown

CooldownOver(G, t) == t - G.lastBulletTime > bulletCooldown

\* the player's velocity after thrust and friction, before the speed limit
ThrustedVelocity(G, keys) ==
    LET rot == G.player.Rotation
               - (IF "Left" \in keys THEN rotationSpeed ELSE 0)
               + (IF "Right" \in keys THEN rotationSpeed ELSE 0)
        upX == IF "Up" \in keys THEN Trunc(Sin(rot) * acceleration, TrigScale) ELSE 0
        upY == IF "Up" \in keys THEN -Trunc(Cos(rot) * acceleration, TrigScale) ELSE 0
        dnX == IF "Down" \in keys THEN Trunc(Sin(rot) * acceleration, 2 * TrigScale) ELSE 0
        dnY == IF "Down" \in keys THEN -Trunc(Cos(rot) * acceleration, 2 * TrigScale) ELSE 0
        vx  == Trunc((G.player.Velocity.X + upX - dnX) * frictionNum, frictionDen)
        vy  == Trunc((G.player.Velocity.Y + upY - dnY) * frictionNum, frictionDen)
    IN  Vec(vx, vy)

handlePlayerInput(G, keys, t) ==
    LET rot == G.player.Rotation
               - (IF "Left" \in keys THEN rotationSpeed ELSE 0)
               + (IF "Right" \in keys THEN rotationSpeed ELSE 0)
        v   == ThrustedVelocity(G, keys)
    IN  Then([G EXCEPT !.player.Rotation = rot, !.player.Velocity = LimitSpeed(v.X, v.Y)],
             LAMBDA G1 :
                 IF "Space" \in keys /\ CooldownOver(G1, t)
                 THEN [createBullet(G1) EXCEPT !.lastBulletTime = t]
                 ELSE G1)

InPlayfield(pos) ==
    /\ pos.X >= -margin /\ pos.X <= screenWidth + margin
    /\ pos.Y >= -margin /\ pos.Y <= screenHeight + margin

\* variant: bullets wrap around the screen like the player and the asteroids
updateBulletsWrapping(G) ==
    LET moved == [i \in 1..Len(G.bullets) |->
                     Update(G.bullets[i], screenWidth, screenHeight, TRUE)]
    IN  [G EXCEPT !.bullets = SelectSeq(moved, LAMBDA b : InPlayfield(b.Position))]

updateBullets(G) ==
    LET moved == [i \in 1..Len(G.bullets) |->
                     Update(G.bullets[i], screenWidth, screenHeight, FALSE)]
    IN  [G EXCEPT !.bullets = SelectSeq(moved, LAMBDA b : InPlayfield(b.Position))]

\* the asteroid CreateAsteroid returns in splitAsteroid, after the setters;
\* dir is -1 for asteroid1 and 1 for asteroid2
SplitChild(asteroid, newSize, numVertices, dir, vel, spin) ==
    Then(CreateAsteroid(newSize, Trunc(newSize * 3, 10), numVertices), LAMBDA a0 :
        [a0 EXCEPT !.Position = Vec(asteroid.Position.X + dir * (newSize \div 2),
                                    asteroid.Position.Y + dir * (newSize \div 2)),
                   !.Velocity = Vec(asteroid.Velocity.X + vel.X, asteroid.Velocity.Y + vel.Y),
                   !.RotationSpeed = spin,
                   \* SetColor(redColor), then StartFade(color.White, 120)
                   !.Color = RedColor,
                   !.FadeStartColor = RedColor,
                   !.FadeEndColor = White,
                   !.FadeProgress = 0,
                   !.FadeTicks = 120,
                   !.IsFading = TRUE])

\* four times currentSize: bbox.MaxX - bbox.MinX + bbox.MaxY - bbox.MinY
Size4(asteroid) ==
    Then(GetBoundingBox(asteroid), LAMBDA bbox :
        bbox.MaxX - bbox.MinX + bbox.MaxY - bbox.MinY)

\* variant: the children get half the size of the parent
splitAsteroidHalf(G, asteroidIndex, rnd) ==
    Then(G.asteroids[asteroidIndex], LAMBDA asteroid :
    Then(Size4(asteroid), LAMBDA size4 :
    Then(RemoveAt(G.asteroids, asteroidIndex), LAMBDA rest :
        IF size4 < 4 * minSize
        THEN [G EXCEPT !.asteroids = rest]
        ELSE Then(Trunc(size4 * 5, 40), LAMBDA newSize :
                 [G EXCEPT !.asteroids = rest \o
                     << SplitChild(asteroid, newSize, rnd.numVertices, -1, rnd.vel1, rnd.spin1),
                        SplitChild(asteroid, newSize, rnd.numVertices, 1, rnd.vel2, rnd.spin2) >>]))))

\* rnd: the values rand returns during one splitAsteroid call.
\* currentSize = size4/4, so currentSize < minSize is size4 < 4*minSize and
\* newSize = currentSize*0.6 is size4*6/40
splitAsteroid(G, asteroidIndex, rnd) ==
    Then(G.asteroids[asteroidIndex], LAMBDA asteroid :
    Then(Size4(asteroid), LAMBDA size4 :
    Then(RemoveAt(G.asteroids, asteroidIndex), LAMBDA rest :
        IF size4 < 4 * minSize
        THEN [G EXCEPT !.asteroids = rest]
        ELSE Then(Trunc(size4 * 6, 40), LAMBDA newSize :
                 [G EXCEPT !.asteroids = rest \o
                     << SplitChild(asteroid, newSize, rnd.numVertices, -1, rnd.vel1, rnd.spin1),
                        SplitChild(asteroid, newSize, rnd.numVertices, 1, rnd.vel2, rnd.spin2) >>]))))

\* variant: the inner loop runs from the first asteroid up
HitAsteroidLowest(G, bullet) ==
    LET hits == { j \in 1..Len(G.asteroids) : PolygonsCollide(bullet, G.asteroids[j]) }
    IN  IF hits = {} THEN 0 ELSE Least(hits)

\* the inner loop of checkCollisions, from the last asteroid down: the highest
\* index whose asteroid collides with the bullet, 0 if none
HitAsteroid(G, bullet) ==
    LET hits == { j \in 1..Len(G.asteroids) : PolygonsCollide(bullet, G.asteroids[j]) }
    IN  IF hits = {} THEN 0 ELSE Greatest(hits)

\* variant: only an asteroid that leaves no fragments is scored
BulletHitScoreOnDestroy(G, i, j, rnd) ==
    splitAsteroid([G EXCEPT !.bullets = RemoveAt(G.bullets, i),
                            !.score = IF Size4(G.asteroids[j]) < 4 * minSize
                                      THEN G.score + 1 ELSE G.score], j, rnd)

\* the body of `if PolygonsCollide(bullet.polygon, asteroid)`
BulletHit(G, i, j, rnd) ==
    splitAsteroid([G EXCEPT !.bullets = RemoveAt(G.bullets, i),
                            !.score = G.score + 1], j, rnd)

\* the outer loop of checkCollisions, from the last bullet down: it leaves the
\* loop (`if bulletHit { break }`) after the first bullet that hits
BulletLoop(G, rnd) ==
    Then({ i \in 1..Len(G.bullets) : HitAsteroid(G, G.bullets[i]) > 0 }, LAMBDA hitting :
        IF hitting = {} THEN G
        ELSE Then(Greatest(hitting), LAMBDA i :
             Then(HitAsteroid(G, G.bullets[i]), LAMBDA j :
                 BulletHit(G, i, j, rnd))))

\* variant: only the first asteroid is tested against the player
PlayerHitFirstOnly(G) ==
    Len(G.asteroids) > 0 /\ PolygonsCollide(G.player, G.asteroids[1])

PlayerHit(G) ==
    \E j \in 1..Len(G.asteroids) : PolygonsCollide(G.player, G.asteroids[j])

PlayerLoop(G) ==
    IF PlayerHit(G)
    THEN [G EXCEPT !.state = "GameOver",
                   !.gameOverReason = "GAME OVER",
                   !.player = StartFade(SetColor(G.player, RedFlash), Blue, 60)]
    ELSE G

\* checkCollisions with the session between its two loops
checkCollisionsSteps(G, rnd) ==
    Then(BulletLoop(G, rnd), LAMBDA G1 : [ mid |-> G1, after |-> PlayerLoop(G1) ])

checkCollisions(G, rnd) == checkCollisionsSteps(G, rnd).after

\* variant: the session becomes GameOver on an empty roster without a reason
WinCheckNoReason(G) ==
    IF Len(G.asteroids) = 0
    THEN [G EXCEPT !.state = "GameOver"]
    ELSE G

WinCheck(G) ==
    IF Len(G.asteroids) = 0
    THEN [G EXCEPT !.state = "GameOver", !.gameOverReason = "YOU WIN!"]
    ELSE G

\* variant: the bullets are moved and pruned before the input is handled
BeforeCollisionsBulletsFirst(G, keys, t) ==
    Then(handlePlayerInput(updateBullets(G), keys, t), LAMBDA G1 :
        [G1 EXCEPT !.player = Update(G1.player, screenWidth, screenHeight, TRUE),
                   !.asteroids = [i \in 1..Len(G1.asteroids) |->
                       Update(G1.asteroids[i], screenWidth, screenHeight, TRUE)]])

\* variant: the asteroids move without wrapping
BeforeCollisionsRocksUnwrapped(G, keys, t) ==
    Then(handlePlayerInput(G, keys, t), LAMBDA G1 :
    Then([G1 EXCEPT !.player = Update(G1.player, screenWidth, screenHeight, TRUE),
                    !.asteroids = [i \in 1..Len(G1.asteroids) |->
                        Update(G1.asteroids[i], screenWidth, screenHeight, FALSE)]],
         LAMBDA G2 : updateBullets(G2)))

\* updatePlaying up to its call of checkCollisions
BeforeCollisions(G, keys, t) ==
    Then(handlePlayerInput(G, keys, t), LAMBDA G1 :
    Then([G1 EXCEPT !.player = Update(G1.player, screenWidth, screenHeight, TRUE),
                    !.asteroids = [i \in 1..Len(G1.asteroids) |->
                        Update(G1.asteroids[i], screenWidth, screenHeight, TRUE)]],
         LAMBDA G2 : updateBullets(G2)))

\* updatePlaying with the session when checkCollisions starts (before) and
\* between the two loops of checkCollisions (mid)
updatePlayingSteps(G, keys, t, rnd) ==
    Then(BeforeCollisions(G, keys, t), LAMBDA G1 :
    Then(checkCollisionsSteps(G1, rnd), LAMBDA c :
        [ before |-> G1, mid |-> c.mid, after |-> WinCheck(c.after) ]))

updatePlaying(G, keys, t, rnd) == updatePlayingSteps(G, keys, t, rnd).after

\* cfg: the values rand returns for one asteroid of Restart
RestartAsteroid(cfg) ==
    Then(CreateAsteroid(cfg.baseRadius, cfg.irregularity, cfg.numVertices), LAMBDA a0 :
        [a0 EXCEPT !.Position = Vec(cfg.x, cfg.y),
                   !.Rotation = cfg.rotation,
                   !.Velocity = Vec(cfg.vx, cfg.vy),
                   !.RotationSpeed = cfg.rotSpeed,
                   !.Color = White,
                   !.IsFading = FALSE])

Restart(t, roster) ==
    [ state          |-> "Playing",
      gameOverReason |-> "",
      score          |-> 0,
      bullets        |-> << >>,
      asteroids      |-> [i \in 1..3 |-> RestartAsteroid(roster[i])],
      lastBulletTime |-> t,
      player         |-> SetColor(SetPosition(CreatePlayer(playerSize),
                                              screenWidth \div 2, screenHeight \div 2),
                                  Blue) ]

\* variant: any key restarts
updateGameOverAnyKey(G, keys, t, roster) ==
    IF keys # {}
    THEN [Restart(t, roster) EXCEPT !.state = "Playing", !.gameOverReason = ""]
    ELSE G

updateGameOver(G, keys, t, roster) ==
    IF "Enter" \in keys
    THEN [Restart(t, roster) EXCEPT !.state = "Playing", !.gameOverReason = ""]
    ELSE G


----------------------------------------------------------------------------
(* Inputs and bounds of the session *)

\* Update calls per run
MaxTicks == 4
\* Update calls per run with the fire key held
MaxVolleyTicks == 11

\* the keys held during one Playing tick
KeyChoices == { {}, {"Space"}, {"Left", "Up"}, {"Right", "Down", "Space"} }
VolleyKeyChoices == { {"Space"} }

\* the keys held during one GameOver tick
GameOverKeyChoices == { {}, {"Enter"}, {"Space"} }

\* wall-clock time between two Update calls, in ms: a regular frame, a late one
TickMs == { 17, 101 }
VolleyTickMs == { 101 }

\* values of rand within their ranges in Restart (lengths in 1/Unit px, angles in degrees)
Rock(baseRadius, irregularity, numVertices, x, y, rotation, vx, vy, rotSpeed) ==
    [ baseRadius |-> baseRadius, irregularity |-> irregularity, numVertices |-> numVertices,
      x |-> x, y |-> y, rotation |-> rotation, vx |-> vx, vy |-> vy, rotSpeed |-> rotSpeed ]

FarRock == Rock(3000, 1000, 8, 60000, 50000, 45, -150, 120, -2)

Rosters == {
    \* one rock ahead of the ship, one drifting into the line of fire
    << Rock(2000, 500, 6, 40000, 25500, 0, 0, 0, 0),
       Rock(2000, 500, 6, 42800, 27400, 180, -150, 0, 0),
       FarRock >>,
    \* three rocks on top of each other ahead of the ship
    << Rock(2000, 500, 6, 40000, 26000, 0, 0, 0, 0),
       Rock(2000, 500, 6, 40000, 26100, 0, 0, 0, 0),
       Rock(2000, 600, 6, 40000, 26000, 0, 0, 0, 0) >>,
    \* a rock on the ship
    << Rock(2000, 500, 12, 20000, 10000, 90, 100, 0, 1),
       Rock(4000, 1200, 8, 40000, 30000, 0, 0, 0, 0),
       FarRock >> }

\* frames: ticks with the fire key held, and Draw calls in between
MaxFrameTicks == 4
MaxFrameDraws == 4

\* values of rand within their ranges in splitAsteroid
SplitDraws == {
    [ numVertices |-> 8, vel1 |-> Vec(0, 0), spin1 |-> 0, vel2 |-> Vec(0, 0), spin2 |-> 0 ],
    [ numVertices |-> 6, vel1 |-> Vec(-50, -50), spin1 |-> -4, vel2 |-> Vec(50, 99), spin2 |-> 4 ] }

----------------------------------------------------------------------------
(* Inputs and bounds of the session picked up in flight *)

MaxFlightTicks == 6

FlightKeyChoices == { {}, {"Space"}, {"Up", "Space"} }
\* two of these ticks are exactly the cooldown
FlightTickMs == { 50 }

\* three rocks at rest near the bottom of the screen, away from the flights
FlightRoster == <<
    Rock(2000, 500, 6, 10000, 45000, 0, 0, 0, 0),
    Rock(2000, 500, 8, 25000, 45000, 0, 0, 0, 0),
    Rock(2000, 500, 6, 60000, 45000, 0, 0, 0, 0) >>

\* the player in flight (1/Unit px, degrees) and the time since its last shot
\* (ms): the ship as NewGame leaves it; at rest 5 px below the top edge,
\* nose up; at rest 5 px left of the right edge, nose right; climbing near
\* the maximum speed; flying up and right near the maximum speed
Flight(x, y, vx, vy, rotation, idle) ==
    [ x |-> x, y |-> y, vx |-> vx, vy |-> vy, rotation |-> rotation, idle |-> idle ]

Flights == {
    Flight(40000, 30000, 0, 0, 0, 0),
    Flight(40000, 500, 0, 0, 0, 200),
    Flight(79500, 30000, 0, 0, 90, 200),
    Flight(40000, 30000, 0, -495, 0, 0),
    Flight(40000, 30000, 240, -430, 30, 0) }

\* the session Restart leaves at time 0, with the player in the given flight
InFlight(f) ==
    Then(Restart(0, FlightRoster), LAMBDA G :
        [G EXCEPT !.player = SetRotation(SetVelocity(SetPosition(G.player, f.x, f.y),
                                                     f.vx, f.vy), f.rotation)])

\* sessions in which the fire key can be pressed during the first ticks only:
\* the ship at rest at the centre, nose up; sliding backwards near the maximum
\* speed, nose up; at rest above the second asteroid, nose down
MaxLiveShots == 1

LiveKeyChoices == { {}, {"Space"} }

\* fragments that stay where the parent was
LiveSplitDraws == { rnd \in SplitDraws : rnd.vel1 = Vec(0, 0) /\ rnd.spin1 = 0 }

LiveFlights == {
    Flight(40000, 30000, 0, 0, 0, 200),
    Flight(40000, 30000, 0, 495, 0, 200),
    Flight(25000, 38000, 0, 0, 180, 200) }

\* sessions picked up with an asteroid at an edge of the screen and the ship
\* at rest, aiming at it: 4 px below the top edge and drifting up slowly, the
\* ship 52 px below the edge, nose up; 3 px left of the right edge and drifting
\* right, the ship 52 px left of the edge, nose right
MaxEdgeTicks == 5

EdgeKeyChoices == { {}, {"Space"} }

Edges == {
    [ flight |-> Flight(40000, 5200, 0, 0, 0, 200),
      rock   |-> Rock(2000, 500, 6, 40000, 400, 0, 0, -50, 0) ],
    [ flight |-> Flight(74800, 30000, 0, 0, 90, 200),
      rock   |-> Rock(2000, 500, 6, 79700, 30000, 0, 150, 0, 0) ] }

AtEdge(e) ==
    Then(Restart(0, << e.rock, FlightRoster[2], FlightRoster[3] >>), LAMBDA G :
        [G EXCEPT !.player = SetRotation(SetVelocity(SetPosition(G.player, e.flight.x, e.flight.y),
                                                     e.flight.vx, e.flight.vy),
                                         e.flight.rotation)])

----------------------------------------------------------------------------
(* Inputs and bounds of the geometry kernel called on its own *)

\* rectangle corners lie on multiples of 5 up to 5 * GridMax
GridMax == 3

GridCoords == { 5 * k : k \in 0..GridMax }
PointCoords == (-2)..(5 * GridMax + 2)

\* the polygon of the tests: a struct literal with Vertices, Position 0, Scale 1
TestPolygon(vertices) == NewPolygon(vertices)

Rect(x1, y1, x2, y2) == TestPolygon(<< Vec(x1, y1), Vec(x2, y1), Vec(x2, y2), Vec(x1, y2) >>)
\* the same corners in the other winding
RectCCW(x1, y1, x2, y2) == TestPolygon(<< Vec(x1, y1), Vec(x1, y2), Vec(x2, y2), Vec(x2, y1) >>)

Rects == { Rect(x1, y1, x2, y2) : <<x1, y1, x2, y2>> \in
             { q \in GridCoords \X GridCoords \X GridCoords \X GridCoords :
                 q[1] < q[3] /\ q[2] < q[4] } }
RectsCCW == { RectCCW(x1, y1, x2, y2) : <<x1, y1, x2, y2>> \in
             { q \in GridCoords \X GridCoords \X GridCoords \X GridCoords :
                 q[1] < q[3] /\ q[2] < q[4] } }

\* polygon3 of TestCollisionDetection, a small square, a triangle, a diamond,
\* a segment, and three rocks of CreateAsteroid, placed and rotated (in px)
OtherShapes == {
    Rect(20, 20, 30, 30),
    Rect(6, 6, 9, 9),
    TestPolygon(<< Vec(0, 0), Vec(10, 0), Vec(0, 10) >>),
    TestPolygon(<< Vec(5, -2), Vec(12, 5), Vec(5, 12), Vec(-2, 5) >>),
    TestPolygon(<< Vec(0, 0), Vec(10, 10) >>),
    RestartAsteroid(Rock(20, 5, 6, 0, 0, 30, 0, 0, 0)),
    RestartAsteroid(Rock(30, 10, 7, 30, 10, 200, 0, 0, 0)),
    RestartAsteroid(Rock(20, 5, 12, 90, 90, 0, 0, 0, 0)) }

Points == { Vec(x, y) : <<x, y>> \in PointCoords \X PointCoords }

\* polygons of fewer than three vertices: none, a point, two segments
Degenerate == {
    TestPolygon(<< >>),
    TestPolygon(<< Vec(5, 5) >>),
    TestPolygon(<< Vec(0, 0), Vec(10, 10) >>),
    TestPolygon(<< Vec(-2, 7), Vec(17, 7) >>) }

----------------------------------------------------------------------------
(* Inputs and bounds of one PolygonObject called on its own *)

\* Draw calls on one object
MaxDraws == 24
\* Update calls on one moving object
MaxObjUpdates == 3
\* Update calls on one fading object
MaxFadeUpdates == 9
\* SetColor and StartFade calls on one object
MaxColourOps == 2
\* turn steps of one object
MaxTurns == 1
\* Rotate calls in a row on one object
MaxRotates == 3

\* Rotate(angle), degrees: a quarter turn, the turn steps, more than half a
\* turn, nearly a full turn
RotateAngles == { 90, -6, 6, 200, 350 }

NoHist == [ draws |-> 0, updates |-> 0, colourOps |-> 0,
            op |-> "none", target |-> White, duration |-> 0, since |-> 0,
            wasFading |-> FALSE, turns |-> 0, turn |-> 0 ]

\* a triangle that is placed, moving and turning (px and degrees)
Mover(x, y, vx, vy, rotation, rotSpeed) ==
    Then(TestPolygon(<< Vec(0, -10 * Unit), Vec(-7 * Unit, 6 * Unit), Vec(7 * Unit, 6 * Unit) >>),
         LAMBDA t :
            SetRotationSpeed(SetRotation(SetVelocity(SetPosition(t, x * Unit, y * Unit),
                                                     vx * Unit, vy * Unit),
                                         rotation), rotSpeed))

\* just left of the screen; on the right and bottom edges, half a turn per
\* Update; leaving through the right and the top; far faster than the screen
Movers == {
    Mover(-1, 0, 0, 0, 0, 0),
    Mover(800, 600, 0, 0, 180, 180),
    Mover(798, 2, 3, -3, 350, 20),
    Mover(100, 100, -1000, 1500, 5, -10) }

Black == <<0, 0, 0, 255>>

\* the colours an object of the fade runs starts with or is set to
Palette == { White, Blue, RedColor }

\* StartFade(target, duration)
FadeChoices == { <<White, 6>>, <<Blue, 3>>, <<Blue, 1>>, <<White, 7>> }

\* interpolateColor(start, end, progress): progress as <<k, N>>, the float64
\* reached by k additions of float64(1/N): -1.0, 0.0, 0.5, 1.0, 2.0,
\* 0.42857142857142855, 0.6000000000000001
ProgressChoices == { <<-1, 1>>, <<0, 1>>, <<1, 2>>, <<1, 1>>, <<2, 1>>, <<3, 7>>, <<3, 5>> }

----------------------------------------------------------------------------
(* The session as a state machine *)

NoProbe == [ op |-> "none" ]
NoCall == [ fn |-> "none" ]

GeomIdle == argA = Nil /\ argB = Nil /\ argP = Nil /\ call = NoCall /\ hist = NoHist

Store(G) ==
    /\ asteroids' = G.asteroids
    /\ player' = G.player
    /\ bullets' = G.bullets
    /\ lastBulletTime' = G.lastBulletTime
    /\ score' = G.score
    /\ state' = G.state
    /\ gameOverReason' = G.gameOverReason

\* variant: the frame also advances the fades of what it draws
GameDrawAnimating(G) ==
    [G EXCEPT !.player = Draw(updateFade(G.player)),
              !.asteroids = [ i \in 1..Len(G.asteroids) |-> Draw(updateFade(G.asteroids[i])) ],
              !.bullets = [ i \in 1..Len(G.bullets) |-> Draw(G.bullets[i]) ]]

\* Game.Draw: the player, every asteroid, every bullet; the score and the
\* game-over texts are rendered from the session and change nothing
GameDraw(G) ==
    [G EXCEPT !.player = Draw(G.player),
              !.asteroids = [ i \in 1..Len(G.asteroids) |-> Draw(G.asteroids[i]) ],
              !.bullets = [ i \in 1..Len(G.bullets) |-> Draw(G.bullets[i]) ]]

\* NewGame
Init ==
    /\ now = 0
    /\ ticks = 0
    /\ probe = NoProbe
    /\ \E roster \in Rosters :
       \E G \in { Restart(0, roster) } :
          /\ asteroids = G.asteroids
          /\ player = G.player
          /\ bullets = G.bullets
          /\ lastBulletTime = G.lastBulletTime
          /\ score = G.score
          /\ state = G.state
          /\ gameOverReason = G.gameOverReason
    /\ GeomIdle

\* Update, case GameStatePlaying, with the inputs drawn from the given sets
UpdatePlayingOn(keyChoices, tickMs, maxTicks) ==
    /\ state = "Playing"
    /\ ticks < maxTicks
    /\ \E keys \in keyChoices, dt \in tickMs, rnd \in SplitDraws :
       \E tick \in { updatePlayingSteps(Session, keys, now + dt, rnd) } :
          /\ Store(tick.after)
          /\ now' = now + dt
          /\ probe' = [ op |-> "updatePlaying", keys |-> keys,
                        before |-> tick.before, mid |-> tick.mid ]
    /\ ticks' = ticks + 1
    /\ UNCHANGED geomVars

\* Update, case GameStateGameOver, with the inputs drawn from the given sets
UpdateGameOverOn(tickMs, maxTicks) ==
    /\ state = "GameOver"
    /\ ticks < maxTicks
    /\ \E keys \in GameOverKeyChoices, dt \in tickMs, roster \in Rosters :
       \E G \in { updateGameOver(Session, keys, now + dt, roster) } :
          /\ Store(G)
          /\ now' = now + dt
          /\ probe' = [ op |-> "updateGameOver", keys |-> keys, entry |-> Session ]
    /\ ticks' = ticks + 1
    /\ UNCHANGED geomVars

UpdatePlaying == UpdatePlayingOn(KeyChoices, TickMs, MaxTicks)
UpdateGameOver == UpdateGameOverOn(TickMs, MaxTicks)

Next == UpdatePlaying \/ UpdateGameOver

Spec == Init /\ [][Next]_vars

\* Draw of the session, between two Updates
DrawFrame ==
    /\ hist.draws < MaxFrameDraws
    /\ Store(GameDraw(Session))
    /\ probe' = [ op |-> "Draw", entry |-> Session ]
    /\ hist' = [hist EXCEPT !.draws = hist.draws + 1]
    /\ UNCHANGED <<now, ticks, argA, argB, argP, call>>

FramePlaying == UpdatePlayingOn(VolleyKeyChoices, VolleyTickMs, MaxFrameTicks)
FrameGameOver == UpdateGameOverOn(VolleyTickMs, MaxFrameTicks)

FrameNext == FramePlaying \/ FrameGameOver \/ DrawFrame

SpecFrame == Init /\ [][FrameNext]_vars

\* the same session with the fire key held on every tick, for longer runs
VolleyPlaying == UpdatePlayingOn(VolleyKeyChoices, VolleyTickMs, MaxVolleyTicks)
VolleyGameOver == UpdateGameOverOn(VolleyTickMs, MaxVolleyTicks)

VolleyNext == VolleyPlaying \/ VolleyGameOver

SpecVolley == Init /\ [][VolleyNext]_vars

\* the session picked up in flight, with the fire key held or not
FlightInit ==
    /\ ticks = 0
    /\ probe = NoProbe
    /\ \E f \in Flights :
       \E G \in { InFlight(f) } :
          /\ now = f.idle
          /\ asteroids = G.asteroids
          /\ player = G.player
          /\ bullets = G.bullets
          /\ lastBulletTime = G.lastBulletTime
          /\ score = G.score
          /\ state = G.state
          /\ gameOverReason = G.gameOverReason
    /\ GeomIdle

FlightPlaying == UpdatePlayingOn(FlightKeyChoices, FlightTickMs, MaxFlightTicks)

FlightNext == FlightPlaying

SpecFlight == FlightInit /\ [][FlightNext]_vars

\* the session in which shots are fired during the first ticks only
LiveInit ==
    /\ ticks = 0
    /\ probe = NoProbe
    /\ \E f \in LiveFlights :
       \E G \in { InFlight(f) } :
          /\ now = f.idle
          /\ asteroids = G.asteroids
          /\ player = G.player
          /\ bullets = G.bullets
          /\ lastBulletTime = G.lastBulletTime
          /\ score = G.score
          /\ state = G.state
          /\ gameOverReason = G.gameOverReason
    /\ GeomIdle

\* Update, case GameStatePlaying; after the first MaxLiveShots ticks no key is
\* pressed, and the clock, which only a shot reads, and the count of ticks
\* are left as they are
LivePlaying ==
    /\ state = "Playing"
    /\ \E keys \in (IF ticks < MaxLiveShots THEN LiveKeyChoices ELSE { {} }),
          dt \in VolleyTickMs, rnd \in LiveSplitDraws :
       \E tick \in { updatePlayingSteps(Session, keys, now + dt, rnd) } :
          /\ Store(tick.after)
          /\ now' = IF ticks < MaxLiveShots THEN now + dt ELSE now
          /\ probe' = [ op |-> "updatePlaying", keys |-> keys,
                        before |-> tick.before, mid |-> tick.mid ]
    /\ ticks' = IF ticks < MaxLiveShots THEN ticks + 1 ELSE ticks
    /\ UNCHANGED geomVars

LiveNext == LivePlaying

\* Update is called on every tick of the game loop
SpecLive == LiveInit /\ [][LiveNext]_vars /\ WF_vars(LivePlaying)

\* the session with an asteroid at an edge of the screen
EdgeInit ==
    /\ ticks = 0
    /\ probe = NoProbe
    /\ \E e \in Edges :
       \E G \in { AtEdge(e) } :
          /\ now = e.flight.idle
          /\ asteroids = G.asteroids
          /\ player = G.player
          /\ bullets = G.bullets
          /\ lastBulletTime = G.lastBulletTime
          /\ score = G.score
          /\ state = G.state
          /\ gameOverReason = G.gameOverReason
    /\ GeomIdle

EdgePlaying == UpdatePlayingOn(EdgeKeyChoices, VolleyTickMs, MaxEdgeTicks)

EdgeNext == EdgePlaying

SpecEdge == EdgeInit /\ [][EdgeNext]_vars

----------------------------------------------------------------------------
(* The geometry kernel called on its own arguments *)

GameIdle ==
    /\ asteroids = << >> /\ player = Nil /\ bullets = << >> /\ lastBulletTime = 0
    /\ score = 0 /\ state = "none" /\ gameOverReason = "" /\ now = 0 /\ ticks = 0
    /\ probe = NoProbe

GeomInit ==
    /\ GameIdle
    /\ call = NoCall
    /\ hist = NoHist
    /\ \/ argA \in Rects \cup RectsCCW \cup Degenerate /\ argP \in Points /\ argB = Nil
       \/ /\ argA \in Rects \cup OtherShapes \cup Degenerate
          /\ argB \in Rects \cup OtherShapes \cup Degenerate
          /\ argP = Nil
       \/ argA \in Degenerate \cup { Rect(0, 0, 10, 10) } /\ argB = Nil /\ argP = Nil

CallPointInPolygon ==
    /\ argP # Nil
    /\ call' = [ fn |-> "PointInPolygon", result |-> PointInPolygon(argP, argA.Vertices) ]
    /\ UNCHANGED <<gameVars, argA, argB, argP, hist>>

CallBoundingBoxesOverlap ==
    /\ argB # Nil
    /\ call' = [ fn |-> "BoundingBoxesOverlap",
                 result |-> BoundingBoxesOverlap(GetBoundingBox(argA), GetBoundingBox(argB)) ]
    /\ UNCHANGED <<gameVars, argA, argB, argP, hist>>

CallLineSegmentsIntersect ==
    /\ argB # Nil
    /\ Len(argA.Vertices) >= 2 /\ Len(argB.Vertices) >= 2
    /\ call' = [ fn |-> "LineSegmentsIntersect",
                 result |-> LineSegmentsIntersect(argA.Vertices[1], argA.Vertices[2],
                                                  argB.Vertices[1], argB.Vertices[2]) ]
    /\ UNCHANGED <<gameVars, argA, argB, argP, hist>>

CallPolygonsCollide ==
    /\ argB # Nil
    /\ call' = [ fn |-> "PolygonsCollide", result |-> PolygonsCollide(argA, argB) ]
    /\ UNCHANGED <<gameVars, argA, argB, argP, hist>>

\* Draw on an object taken alone
CallDraw ==
    /\ argA # Nil /\ argB = Nil /\ argP = Nil
    /\ hist.draws < MaxDraws
    /\ argA' = Draw(argA)
    /\ call' = [ fn |-> "Draw", before |-> argA, strokes |-> Strokes(argA) ]
    /\ hist' = [hist EXCEPT !.draws = hist.draws + 1]
    /\ UNCHANGED <<gameVars, argB, argP>>

GeomNext ==
    \/ CallPointInPolygon
    \/ CallBoundingBoxesOverlap
    \/ CallLineSegmentsIntersect
    \/ CallPolygonsCollide
    \/ CallDraw

SpecGeom == GeomInit /\ [][GeomNext]_vars

----------------------------------------------------------------------------
(* One PolygonObject called on its own *)

\* Update on a screen of screenWidth x screenHeight, wrapping or not
CallUpdateOn(maxUpdates) ==
    /\ argA # Nil /\ argB = Nil /\ argP = Nil
    /\ hist.updates < maxUpdates
    /\ \E withWrapping \in BOOLEAN :
          /\ argA' = Update(argA, screenWidth, screenHeight, withWrapping)
          /\ call' = [ fn |-> "Update", before |-> argA, withWrapping |-> withWrapping,
                        turn |-> hist.turn ]
    /\ hist' = [hist EXCEPT !.updates = hist.updates + 1, !.since = hist.since + 1,
                            !.turn = 0]
    /\ UNCHANGED <<gameVars, argB, argP>>

ObjectInit ==
    /\ GameIdle
    /\ call = NoCall
    /\ hist = NoHist
    /\ argA \in Movers /\ argB = Nil /\ argP = Nil

\* the turn step of handlePlayerInput, at most once before an Update
CallRotate ==
    /\ argA # Nil
    /\ hist.turns < MaxTurns
    /\ hist.turn = 0
    /\ \E angle \in { -rotationSpeed, rotationSpeed } :
          /\ argA' = Rotate(argA, angle)
          /\ call' = [ fn |-> "Rotate", before |-> argA ]
          /\ hist' = [hist EXCEPT !.turns = hist.turns + 1, !.turn = angle]
    /\ UNCHANGED <<gameVars, argB, argP>>

ObjectUpdate == CallUpdateOn(MaxObjUpdates)

ObjectNext == CallDraw \/ ObjectUpdate \/ CallRotate

SpecObject == ObjectInit /\ [][ObjectNext]_vars

\* Rotate called in a row; argB keeps the object as it was constructed and
\* hist.turn the sum of the angles
RotateInit ==
    /\ GameIdle
    /\ call = NoCall
    /\ hist = NoHist
    /\ argA \in Movers \cup { Rect(0, 0, 10, 10) }
    /\ argB = argA
    /\ argP = Nil

CallRotateBy ==
    /\ hist.turns < MaxRotates
    /\ \E angle \in RotateAngles :
          /\ argA' = Rotate(argA, angle)
          /\ call' = [ fn |-> "Rotate", before |-> argA, angle |-> angle ]
          /\ hist' = [hist EXCEPT !.turns = hist.turns + 1, !.turn = hist.turn + angle]
    /\ UNCHANGED <<gameVars, argB, argP>>

RotateNext == CallRotateBy

SpecRotate == RotateInit /\ [][RotateNext]_vars

\* SetColor
CallSetColor ==
    /\ argA # Nil
    /\ hist.colourOps < MaxColourOps
    /\ \E c \in { Blue, RedColor } :
          /\ argA' = SetColor(argA, c)
          /\ call' = [ fn |-> "SetColor", before |-> argA ]
          /\ hist' = [hist EXCEPT !.colourOps = hist.colourOps + 1, !.op = "SetColor",
                                  !.target = c, !.duration = 0, !.since = 0,
                                  !.wasFading = argA.IsFading]
    /\ UNCHANGED <<gameVars, argB, argP>>

\* StartFade from one of the colours of the palette
CallStartFade ==
    /\ argA # Nil
    /\ hist.colourOps < MaxColourOps
    /\ argA.Color \in Palette
    /\ \E f \in FadeChoices :
          /\ argA' = StartFade(argA, f[1], f[2])
          /\ call' = [ fn |-> "StartFade", before |-> argA ]
          /\ hist' = [hist EXCEPT !.colourOps = hist.colourOps + 1, !.op = "StartFade",
                                  !.target = f[1], !.duration = f[2], !.since = 0,
                                  !.wasFading = argA.IsFading]
    /\ UNCHANGED <<gameVars, argB, argP>>

\* interpolateColor on its own arguments, before the object is used
CallInterpolateColor ==
    /\ argA # Nil
    /\ hist = NoHist
    /\ \E startColor \in Palette \cup { Black }, endColor \in Palette \cup { Black },
          progress \in ProgressChoices :
          call' = [ fn |-> "interpolateColor", startColor |-> startColor,
                    endColor |-> endColor, progress |-> progress,
                    result |-> interpolateColor(startColor, endColor,
                                                progress[1], progress[2]) ]
    /\ UNCHANGED <<gameVars, argA, argB, argP, hist>>

FadeInit ==
    /\ GameIdle
    /\ call = NoCall
    /\ hist = NoHist
    /\ argA \in { SetColor(Rect(0, 0, 10, 10), c) : c \in { White, RedColor } }
    /\ argB = Nil /\ argP = Nil

FadeUpdate == CallUpdateOn(MaxFadeUpdates)

FadeNext == FadeUpdate \/ CallSetColor \/ CallStartFade \/ CallInterpolateColor

SpecFade == FadeInit /\ [][FadeNext]_vars

----------------------------------------------------------------------------
(* Properties of the session *)

\* the last step was a Playing tick
PlayingTick == probe.op = "updatePlaying"

\* the asteroids of G that bullet i of G overlaps
Overlapped(G, i) ==
    { j \in 1..Len(G.asteroids) : PolygonsCollide(G.bullets[i], G.asteroids[j]) }

\* the bullets of G that overlap an asteroid
Hitting(G) == { i \in 1..Len(G.bullets) : Overlapped(G, i) # {} }

\* the player of G collides with an asteroid of G
PlayerCollides(G) ==
    \E j \in 1..Len(G.asteroids) : PolygonsCollide(G.player, G.asteroids[j])

\* C1: after a Playing tick, if the player collided with an asteroid at the
\* player-vs-asteroid check (the session after the bullet hits of the tick),
\* the state is GameOver with reason "GAME OVER", the player has the flash
\* colour and a fade from it to blue of 60 increments has started; if it
\* collided with none and the roster is not empty the state is Playing.
C1_PlayerCollision ==
    PlayingTick =>
        IF PlayerCollides(probe.mid)
        THEN /\ state = "GameOver"
             /\ gameOverReason = "GAME OVER"
             /\ player.Color = <<255, 50, 50, 255>>
             /\ player.IsFading
             /\ player.FadeStartColor = <<255, 50, 50, 255>>
             /\ player.FadeEndColor = <<0, 0, 255, 255>>
             /\ player.FadeTicks = 60
             /\ player.FadeProgress = 0
        ELSE Len(probe.mid.asteroids) > 0 => state = "Playing"

\* a Playing tick in which a bullet hit was resolved and then the player collided
C1_Witness ==
    /\ PlayingTick
    /\ PlayerCollides(probe.mid)
    /\ probe.mid.score = probe.before.score + 1
    /\ gameOverReason = "GAME OVER"

\* C2: a Playing tick ends in GameOver with reason "YOU WIN!" exactly when the
\* roster is empty at its end; "YOU WIN!" implies an empty roster, "GAME OVER"
\* a non-empty one, and the reason is empty exactly in state Playing.
C2_Reasons ==
    /\ PlayingTick =>
          ((state = "GameOver" /\ gameOverReason = "YOU WIN!") <=> Len(asteroids) = 0)
    /\ gameOverReason = "YOU WIN!" => Len(asteroids) = 0
    /\ gameOverReason = "GAME OVER" => Len(asteroids) > 0
    /\ gameOverReason = "" <=> state = "Playing"

\* the tick that destroyed the last asteroid
C2_Witness ==
    /\ PlayingTick
    /\ Len(probe.before.asteroids) = 1
    /\ Len(asteroids) = 0
    /\ state = "GameOver"
    /\ gameOverReason = "YOU WIN!"

\* C3: a step taken in state GameOver with the restart key yields Playing
\* with empty reason, score 0, no bullets, 3 asteroids and a new player at the
\* screen centre with zero velocity; any other step taken in state GameOver
\* leaves the whole session as it is, so GameOver is left in no other way.
C3_GameOverUpdate ==
    [][ state = "GameOver" =>
          IF "Enter" \in probe'.keys
          THEN /\ state' = "Playing"
               /\ gameOverReason' = ""
               /\ score' = 0
               /\ bullets' = << >>
               /\ Len(asteroids') = 3
               /\ player'.Position = Vec(400 * Unit, 300 * Unit)
               /\ player'.Velocity = Vec(0, 0)
               /\ player'.Rotation = 0
               /\ player'.Vertices = CreatePlayer(20 * Unit).Vertices
               /\ ~player'.IsFading
          ELSE UNCHANGED <<asteroids, player, bullets, lastBulletTime, score,
                           state, gameOverReason>>
      ]_vars

\* a restart out of a GameOver that was reached with points
C3_Witness ==
    /\ probe.op = "updateGameOver"
    /\ "Enter" \in probe.keys
    /\ probe.entry.state = "GameOver"
    /\ probe.entry.score > 0
    /\ state = "Playing"
    /\ score = 0

\* C4: when the bullet scan of a tick finds a bullet that overlaps asteroids
\* (the scan runs from the last bullet down), that bullet is removed, the score
\* grows by exactly 1, and exactly one asteroid, the overlapped one with the
\* highest index, is taken out and replaced by zero or two children appended
\* to the roster; the other asteroids stay.
C4_BulletHit ==
    PlayingTick /\ Hitting(probe.before) # {} =>
        LET B == probe.before
            M == probe.mid
            i == Greatest(Hitting(B))
            j == Greatest(Overlapped(B, i))
            kept == RemoveAt(B.asteroids, j)
        IN  /\ M.bullets = RemoveAt(B.bullets, i)
            /\ M.score = B.score + 1
            /\ Len(M.asteroids) - Len(kept) \in {0, 2}
            /\ SubSeq(M.asteroids, 1, Len(kept)) = kept

\* a bullet that overlapped several asteroids at once
C4_Witness ==
    /\ PlayingTick
    /\ Hitting(probe.before) # {}
    /\ Cardinality(Overlapped(probe.before, Greatest(Hitting(probe.before)))) >= 2
    /\ probe.mid.score = probe.before.score + 1

\* C5: if, when the collisions of a tick start, exactly two bullets overlap
\* asteroids and they overlap different ones, both bullets are removed and the
\* score grows by 2 in that tick.
C5_EveryHitBulletResolved ==
    PlayingTick =>
        \A i1, i2 \in 1..Len(probe.before.bullets) :
            ( /\ i1 # i2
              /\ Hitting(probe.before) = {i1, i2}
              /\ Overlapped(probe.before, i1) \cap Overlapped(probe.before, i2) = {} )
            => /\ Len(probe.mid.bullets) = Len(probe.before.bullets) - 2
               /\ probe.mid.score = probe.before.score + 2

\* C6: the split of the hit asteroid takes s = (width + height)/4 of its
\* bounding box; below 15 px the asteroid is removed and nothing is added
\* (roster size -1), otherwise it is removed and two children are appended
\* (roster size +1), each generated by CreateAsteroid with base radius 0.6*s;
\* in both cases the parent is not in the roster afterwards.
C6_Split ==
    PlayingTick /\ Hitting(probe.before) # {} =>
        LET B == probe.before
            M == probe.mid
            i == Greatest(Hitting(B))
            j == Greatest(Overlapped(B, i))
            parent == B.asteroids[j]
            box == GetBoundingBox(parent)
            wh == (box.MaxX - box.MinX) + (box.MaxY - box.MinY)
            base == Trunc(wh * 6, 40)
            n == Len(M.asteroids)
        IN  /\ \A k \in 1..n : M.asteroids[k] # parent
            /\ IF wh < 4 * 15 * Unit
               THEN n = Len(B.asteroids) - 1
               ELSE /\ n = Len(B.asteroids) + 1
                    /\ \A k \in {n - 1, n} : \E nv \in 6..10 :
                          M.asteroids[k].Vertices
                              = CreateAsteroid(base, Trunc(base * 3, 10), nv).Vertices

\* a child of an earlier split, below the threshold, is hit and removed
C6_Witness ==
    /\ PlayingTick
    /\ Hitting(probe.before) # {}
    /\ probe.before.score >= 1
    /\ Len(probe.mid.asteroids) = Len(probe.before.asteroids) - 1
    /\ probe.before.asteroids[Greatest(Overlapped(probe.before,
                                   Greatest(Hitting(probe.before))))].FadeTicks = 120

----------------------------------------------------------------------------
(* Properties of the geometry kernel *)

\* the two boxes have no point in common
BoxesDisjoint(a, b) ==
    a.MaxX < b.MinX \/ b.MaxX < a.MinX \/ a.MaxY < b.MinY \/ b.MaxY < a.MinY

\* the interiors of the two boxes have a point in common
InteriorsOverlap(a, b) ==
    a.MinX < b.MaxX /\ b.MinX < a.MaxX /\ a.MinY < b.MaxY /\ b.MinY < a.MaxY

IsSquare(p) ==
    /\ p \in Rects
    /\ p.Vertices[3].X - p.Vertices[1].X = p.Vertices[3].Y - p.Vertices[1].Y

\* twice the signed area of the triangle a, b, c
Orient(a, b, c) == (b.X - a.X) * (c.Y - a.Y) - (b.Y - a.Y) * (c.X - a.X)

\* c lies on the closed segment a-b
OnSegment(a, b, c) ==
    /\ Orient(a, b, c) = 0
    /\ (a.X <= c.X /\ c.X <= b.X) \/ (b.X <= c.X /\ c.X <= a.X)
    /\ (a.Y <= c.Y /\ c.Y <= b.Y) \/ (b.Y <= c.Y /\ c.Y <= a.Y)

\* the open segments p1-p2 and p3-p4 cross in one point
SegmentsCross(p1, p2, p3, p4) ==
    /\ Orient(p1, p2, p3) * Orient(p1, p2, p4) < 0
    /\ Orient(p3, p4, p1) * Orient(p3, p4, p2) < 0

\* the closed segments p1-p2 and p3-p4 have a point in common
SegmentsMeet(p1, p2, p3, p4) ==
    \/ SegmentsCross(p1, p2, p3, p4)
    \/ OnSegment(p1, p2, p3) \/ OnSegment(p1, p2, p4)
    \/ OnSegment(p3, p4, p1) \/ OnSegment(p3, p4, p2)

\* some vertex of one polygon is inside the other, by PointInPolygon
VertexInside(a, b) ==
    LET va == getTransformedVertices(a)
        vb == getTransformedVertices(b)
    IN  \/ \E i \in 1..Len(va) : PointInPolygon(va[i], vb)
        \/ \E i \in 1..Len(vb) : PointInPolygon(vb[i], va)

\* some edge of a and some edge of b are related by R
EdgesRelated(a, b, R(_, _, _, _)) ==
    LET va == getTransformedVertices(a)
        vb == getTransformedVertices(b)
    IN  \E i \in 1..Len(va), j \in 1..Len(vb) :
            R(EdgeStart(va, i), EdgeEnd(va, i), EdgeStart(vb, j), EdgeEnd(vb, j))

\* C7: PolygonsCollide is false for polygons whose bounding boxes are disjoint,
\* and true for two axis-aligned squares whose interiors overlap, such as
\* [0,10]x[0,10] and [5,15]x[5,15].
C7_DisjointBoxesAndSquares ==
    call.fn = "PolygonsCollide" =>
        LET a == GetBoundingBox(argA)
            b == GetBoundingBox(argB)
        IN  /\ BoxesDisjoint(a, b) => call.result = FALSE
            /\ IsSquare(argA) /\ IsSquare(argB) /\ InteriorsOverlap(a, b)
                  => call.result = TRUE

\* the two overlapping squares of TestCollisionDetection
C7_Witness ==
    /\ call.fn = "PolygonsCollide"
    /\ argA = Rect(0, 0, 10, 10)
    /\ argB = Rect(5, 5, 15, 15)
    /\ call.result = TRUE

\* C8: for polygons of at least 3 vertices with overlapping bounding boxes,
\* PolygonsCollide is true if a vertex of one is inside the other or two of
\* their edges cross, and only if a vertex is inside or two of their edges
\* have a point in common; so it is true for a polygon inside another and for
\* polygons that cross with no vertex of either inside the other.
C8_CollideIffInsideOrCrossing ==
    ( /\ call.fn = "PolygonsCollide"
      /\ Len(argA.Vertices) >= 3 /\ Len(argB.Vertices) >= 3
      /\ ~BoxesDisjoint(GetBoundingBox(argA), GetBoundingBox(argB)) )
    => /\ (VertexInside(argA, argB) \/ EdgesRelated(argA, argB, SegmentsCross))
             => call.result = TRUE
       /\ call.result = TRUE
             => (VertexInside(argA, argB) \/ EdgesRelated(argA, argB, SegmentsMeet))

\* C9 as stated: BoundingBoxesOverlap is the strict overlap on both axes, so
\* boxes that only touch along an edge or at a corner do not overlap.
C9_HalfOpenOverlap ==
    call.fn = "BoundingBoxesOverlap" =>
        (call.result <=> InteriorsOverlap(GetBoundingBox(argA), GetBoundingBox(argB)))

\* C9, amended: BoundingBoxesOverlap is the closed overlap on both axes: true
\* exactly when the boxes have a point in common, so boxes that touch along an
\* edge or at a corner overlap; [0,10]x[0,10] and [5,15]x[5,15] overlap,
\* [0,10]x[0,10] and [20,30]x[20,30] do not.
C9_ClosedOverlap ==
    call.fn = "BoundingBoxesOverlap" =>
        LET a == GetBoundingBox(argA)
            b == GetBoundingBox(argB)
        IN  /\ call.result <=> ( /\ a.MinX <= b.MaxX /\ b.MinX <= a.MaxX
                                 /\ a.MinY <= b.MaxY /\ b.MinY <= a.MaxY )
            /\ (a.MaxX = b.MinX /\ a.MinY <= b.MaxY /\ b.MinY <= a.MaxY)
                  => call.result = TRUE
            /\ argA = Rect(0, 0, 10, 10) /\ argB = Rect(5, 5, 15, 15)
                  => call.result = TRUE
            /\ argA = Rect(0, 0, 10, 10) /\ argB = Rect(20, 20, 30, 30)
                  => call.result = FALSE

\* two boxes that touch in one corner
C9_Witness ==
    /\ call.fn = "BoundingBoxesOverlap"
    /\ argA = Rect(0, 0, 10, 10)
    /\ argB = Rect(10, 10, 15, 15)
    /\ call.result = TRUE

\* C10: for an axis-aligned rectangle given by its 4 corners, in either
\* winding, PointInPolygon is true for every point strictly inside and false
\* for every point strictly outside.
C10_PointInRectangle ==
    (call.fn = "PointInPolygon" /\ argA \in Rects \cup RectsCCW) =>
        LET box == BoxOf(argA.Vertices)
            inside  == /\ box.MinX < argP.X /\ argP.X < box.MaxX
                       /\ box.MinY < argP.Y /\ argP.Y < box.MaxY
            outside == \/ argP.X < box.MinX \/ argP.X > box.MaxX
                       \/ argP.Y < box.MinY \/ argP.Y > box.MaxY
        IN  /\ inside => call.result = TRUE
            /\ outside => call.result = FALSE

\* the square and the inner point of TestPointInPolygon
C10_Witness ==
    /\ call.fn = "PointInPolygon"
    /\ argA = Rect(0, 0, 10, 10)
    /\ argP = Vec(5, 5)
    /\ call.result = TRUE

----------------------------------------------------------------------------
(* Properties of one PolygonObject *)

\* C11: for a polygon of fewer than 3 vertices PointInPolygon is false for
\* every point, PolygonsCollide is false whether the polygon is the first or
\* the second argument, and Draw does nothing: the draw count and the trail of
\* the object stay as they were.
C11_FewerThanThreeVertices ==
    /\ (call.fn = "PointInPolygon" /\ Len(argA.Vertices) < 3) => call.result = FALSE
    /\ (call.fn = "PolygonsCollide" /\ (Len(argA.Vertices) < 3 \/ Len(argB.Vertices) < 3))
          => call.result = FALSE
    /\ (call.fn = "Draw" /\ Len(call.before.Vertices) < 3)
          => /\ argA = call.before
             /\ argA.drawCount = 0
             /\ argA.Trail = << >>

\* a single point inside the square of the tests, as the second argument
C11_Witness ==
    /\ call.fn = "PolygonsCollide"
    /\ argA = Rect(0, 0, 10, 10)
    /\ argB = TestPolygon(<< Vec(5, 5) >>)
    /\ PointInPolygon(argB.Vertices[1], argA.Vertices)
    /\ call.result = FALSE

\* the coordinate after the velocity was added, before any wrap
MovedX(p) == p.Position.X + p.Velocity.X
MovedY(p) == p.Position.Y + p.Velocity.Y

\* C12: Update adds the velocity to the position and then, when wrapping is
\* on, corrects each axis by a single step: a coordinate below 0 gains the
\* screen dimension once, a coordinate above the dimension loses it once, a
\* coordinate in [0, dimension], both ends included, is left alone.  So x = -1
\* on a width of 800 becomes 799, and a coordinate below -dimension or above
\* twice the dimension is still off screen afterwards: the wrap is not a
\* modulo.  With wrapping off the position is the moved position.
C12_SingleStepWrap ==
    call.fn = "Update" =>
        LET x == MovedX(call.before)
            y == MovedY(call.before)
        IN  IF call.withWrapping
            THEN /\ x < 0 => argA.Position.X = x + screenWidth
                 /\ x > screenWidth => argA.Position.X = x - screenWidth
                 /\ (0 <= x /\ x <= screenWidth) => argA.Position.X = x
                 /\ y < 0 => argA.Position.Y = y + screenHeight
                 /\ y > screenHeight => argA.Position.Y = y - screenHeight
                 /\ (0 <= y /\ y <= screenHeight) => argA.Position.Y = y
                 /\ x = -1 * Unit => argA.Position.X = 799 * Unit
                 /\ x < -screenWidth => argA.Position.X < 0
                 /\ y > 2 * screenHeight => argA.Position.Y > screenHeight
            ELSE argA.Position = Vec(x, y)

\* a wrapping Update of an object that is faster than the screen is wide and
\* high: one step on each axis, and the object is still off screen
C12_Witness ==
    /\ call.fn = "Update"
    /\ call.withWrapping
    /\ MovedX(call.before) < -screenWidth
    /\ MovedY(call.before) > 2 * screenHeight
    /\ argA.Position = Vec(MovedX(call.before) + screenWidth,
                           MovedY(call.before) - screenHeight)
    /\ argA.Position.X < 0
    /\ argA.Position.Y > screenHeight

\* the rotation at the start of the tick an Update ends, and the change of
\* the rotation the tick asks for: the turn step plus the rotation speed
TickRotation == call.before.Rotation - call.turn
TickTurn == call.turn + call.before.RotationSpeed

\* C13 as stated: when the rotation is in [0, 2 pi) at the start of the tick
\* and the tick changes it by less than a full turn, the rotation after
\* Update is at least 0 and strictly less than 2 pi.
C13_RotationHalfOpen ==
    ( /\ call.fn = "Update"
      /\ 0 <= TickRotation /\ TickRotation < TwoPi
      /\ Abs(TickTurn) < TwoPi )
    => (0 <= argA.Rotation /\ argA.Rotation < TwoPi)

\* C13, amended: when the rotation is in [0, 2 pi] at the start of the tick
\* and the tick changes it by less than a full turn, the rotation after
\* Update is at least 0 and at most 2 pi; a sum of exactly 2 pi is kept as 2 pi.
C13_RotationClosed ==
    ( /\ call.fn = "Update"
      /\ 0 <= TickRotation /\ TickRotation <= TwoPi
      /\ Abs(TickTurn) < TwoPi )
    => /\ 0 <= argA.Rotation /\ argA.Rotation <= TwoPi
       /\ call.before.Rotation + call.before.RotationSpeed = TwoPi
             => argA.Rotation = TwoPi

\* half a turn plus half a turn: the rotation after Update is the full turn
C13_Witness ==
    /\ call.fn = "Update"
    /\ TickRotation = TwoPi \div 2
    /\ TickTurn = TwoPi \div 2
    /\ argA.Rotation = TwoPi

\* C14: StartFade(target, N), N >= 1, records the current colour as start,
\* target as end, progress 0, increment 1/N, and marks the fade active; with
\* no SetColor or StartFade in between the fade is active during the first
\* N-1 Updates, on the N-th Update the colour is exactly the target and the
\* fade is inactive, and every later Update leaves the colour at the target.
C14_FadeCompletesOnNthUpdate ==
    hist.op = "StartFade" =>
        /\ call.fn = "StartFade"
              => /\ argA.FadeStartColor = call.before.Color
                 /\ argA.FadeEndColor = hist.target
                 /\ argA.FadeProgress = 0
                 /\ argA.FadeTicks = hist.duration
                 /\ argA.IsFading
        /\ hist.since < hist.duration => argA.IsFading
        /\ hist.since >= hist.duration
              => (~argA.IsFading /\ argA.Color = hist.target)

\* C15: SetColor(c) during a fade cancels the fade at once: the fade is
\* inactive right after the call, and the colour is c after every following
\* Update until the next SetColor or StartFade.
C15_SetColorCancelsFade ==
    (hist.op = "SetColor" /\ hist.wasFading)
    => (~argA.IsFading /\ argA.Color = hist.target)

\* SetColor in the middle of a fade, and two Updates later
C15_Witness ==
    /\ hist.op = "SetColor"
    /\ hist.wasFading
    /\ hist.since >= 2
    /\ call.fn = "Update"
    /\ argA.Color = hist.target
    /\ argA.Color # argA.FadeEndColor
    /\ argA.FadeProgress > 0

\* C16: interpolateColor(start, end, p) is the start colour at p = 0 and the
\* end colour at p = 1, treats p below 0 as 0 and p above 1 as 1, keeps every
\* channel between the start and the end value of that channel, and for black
\* to white at p = 0.5 gives a mid-gray, every colour channel within 120..135,
\* with alpha 255.
C16_InterpolateWithinRange ==
    call.fn = "interpolateColor" =>
        /\ call.progress \in { <<0, 1>>, <<-1, 1>> } => call.result = call.startColor
        /\ call.progress \in { <<1, 1>>, <<2, 1>> } => call.result = call.endColor
        /\ \A c \in 1..4 :
              \/ call.startColor[c] <= call.result[c] /\ call.result[c] <= call.endColor[c]
              \/ call.endColor[c] <= call.result[c] /\ call.result[c] <= call.startColor[c]
        /\ (call.startColor = Black /\ call.endColor = White /\ call.progress = <<1, 2>>)
              => /\ \A c \in 1..3 : 120 <= call.result[c] /\ call.result[c] <= 135
                 /\ call.result[4] = 255

\* C17: the trail never holds more than 5 snapshots; on every 4th Draw of an
\* object with at least 3 vertices, and on no other Draw, the current
\* transformed vertices are pushed at the front of the trail, the older
\* snapshots move back by one and the last one is dropped when the trail
\* would hold more than 5; Update never changes the trail.
C17_GhostTrail ==
    /\ Len(argA.Trail) <= 5
    /\ (call.fn = "Draw" /\ Len(call.before.Vertices) >= 3)
          => IF hist.draws % 4 = 0
             THEN /\ Len(argA.Trail) = (IF Len(call.before.Trail) < 5
                                        THEN Len(call.before.Trail) + 1 ELSE 5)
                  /\ argA.Trail[1] = getTransformedVertices(call.before)
                  /\ \A i \in 2..Len(argA.Trail) : argA.Trail[i] = call.before.Trail[i - 1]
             ELSE argA.Trail = call.before.Trail
    /\ call.fn = "Update" => argA.Trail = call.before.Trail

\* the 24th Draw of an object that moved in between: the trail was full, the
\* new snapshot is at the front and the oldest one is gone
C17_Witness ==
    /\ call.fn = "Draw"
    /\ hist.draws = 24
    /\ Len(call.before.Trail) = 5
    /\ Len(argA.Trail) = 5
    /\ argA.Trail[1] = getTransformedVertices(call.before)
    /\ argA.Trail[1] # call.before.Trail[1]
    /\ argA.Trail[5] = call.before.Trail[4]
    /\ argA.Trail[5] # call.before.Trail[5]

----------------------------------------------------------------------------
(* Properties of the session in flight *)

Norm2(v) == v.X * v.X + v.Y * v.Y

\* w is v scaled down to the maximum speed: the same direction and a norm of
\* maxSpeed, each up to the grid of the model
ScaledToMaxSpeed(v, w) ==
    /\ v.X * w.X >= 0 /\ v.Y * w.Y >= 0
    /\ Abs(v.X * w.Y - v.Y * w.X) <= Abs(v.X) + Abs(v.Y)
    /\ Norm2(w) <= maxSpeed * maxSpeed
    /\ Norm2(w) >= (maxSpeed - 2) * (maxSpeed - 2)

\* C18: at the end of every Playing tick the speed of the player is at most
\* the maximum speed, whatever the inputs; when the speed after thrust and
\* friction is above the maximum the velocity is scaled down uniformly, so
\* that its direction is kept and its norm is the maximum, and otherwise it
\* is left as thrust and friction made it.
C18_SpeedLimit ==
    [][ (state = "Playing" /\ ticks' = ticks + 1) =>
            LET v == ThrustedVelocity(Session, probe'.keys)
                w == player'.Velocity
            IN  /\ Norm2(w) <= maxSpeed * maxSpeed
                /\ IF Norm2(v) > maxSpeed * maxSpeed
                   THEN ScaledToMaxSpeed(v, w)
                   ELSE w = v ]_vars

\* the first tick of the flight up and right with the thrust key held: thrust
\* and friction give a speed above the maximum, and the velocity was scaled
C18_Witness ==
    LET G == InFlight(Flight(40000, 30000, 240, -430, 30, 0))
        v == ThrustedVelocity(G, probe.keys)
    IN  /\ probe.op = "updatePlaying"
        /\ ticks = 1
        /\ "Up" \in probe.keys
        /\ player.Position = Vec(G.player.Position.X + player.Velocity.X,
                                 G.player.Position.Y + player.Velocity.Y)
        /\ Norm2(v) > maxSpeed * maxSpeed
        /\ player.Velocity # v
        /\ ScaledToMaxSpeed(v, player.Velocity)
        /\ player.Velocity.X > 0 /\ player.Velocity.Y < 0

\* C19: a bullet is spawned in a tick only if the fire key is held and
\* strictly more than the cooldown of 100 ms has passed since the previous
\* spawn or, before the first spawn, since the (re)start; a tick spawns at
\* most one bullet; the time of the spawn is kept as the time of the previous
\* spawn, so two successive spawns are more than the cooldown apart.
C19_FireCooldown ==
    [][ (state = "Playing" /\ ticks' = ticks + 1) =>
            LET spawned == Len(handlePlayerInput(Session, probe'.keys, now').bullets)
                             - Len(bullets)
            IN  /\ spawned \in {0, 1}
                /\ spawned = 1 => /\ "Space" \in probe'.keys
                                  /\ now' - lastBulletTime > 100
                                  /\ lastBulletTime' = now'
                /\ spawned = 0 => lastBulletTime' = lastBulletTime ]_vars

\* the first shot of a new game with 50 ms ticks: refused 50 ms and 100 ms
\* after the start, spawned 150 ms after it
C19_Witness ==
    /\ probe.op = "updatePlaying"
    /\ "Space" \in probe.keys
    /\ ticks = 3
    /\ now = 150
    /\ lastBulletTime = now
    /\ Len(bullets) = 1
    /\ player.Position = InFlight(Flight(40000, 30000, 0, 0, 0, 0)).player.Position

\* the bullet after its move of one tick, unwrapped
MovedBullet(b) ==
    [b EXCEPT !.Position = Vec(b.Position.X + b.Velocity.X, b.Position.Y + b.Velocity.Y)]

\* [-50, width + 50] x [-50, height + 50], boundary included
WithinMargin(pos) ==
    /\ -50 * Unit <= pos.X /\ pos.X <= screenWidth + 50 * Unit
    /\ -50 * Unit <= pos.Y /\ pos.Y <= screenHeight + 50 * Unit

\* C20: bullets never wrap: every bullet of the roster at the end of a tick
\* is where its velocity took it, and it is inside
\* [-50, width + 50] x [-50, height + 50], boundary included; a bullet whose
\* position after its move is outside that rectangle is not in the roster,
\* and one that is inside or on the boundary stays unless it hit an asteroid.
C20_BulletsPruned ==
    [][ (state = "Playing" /\ ticks' = ticks + 1) =>
            LET flying == handlePlayerInput(Session, probe'.keys, now').bullets
                roster == { bullets'[i] : i \in 1..Len(bullets') }
            IN  /\ \A b \in roster :
                      /\ WithinMargin(b.Position)
                      /\ \E j \in 1..Len(flying) : b = MovedBullet(flying[j])
                /\ \A j \in 1..Len(flying) :
                      IF WithinMargin(MovedBullet(flying[j]).Position)
                      THEN score' = score => MovedBullet(flying[j]) \in roster
                      ELSE MovedBullet(flying[j]) \notin roster ]_vars

\* a bullet exactly on the top boundary, off screen and not wrapped, is in
\* the roster
C20_Witness ==
    /\ probe.op = "updatePlaying"
    /\ \E i \in 1..Len(bullets) :
          /\ bullets[i].Position.Y = -50 * Unit
          /\ bullets[i].Velocity.Y < 0

\* C21: Rotate is additive: after Rotate by one angle and then by another
\* the object has the rotation, and so the transformed vertices, that a
\* single Rotate by the sum of the angles gives, also when the rotation is
\* reduced modulo 2 pi; Rotate changes no field but the rotation; Rotate by a
\* quarter turn on rotation 0 gives a rotation of a quarter turn.
C21_RotateAdditive ==
    call.fn = "Rotate" =>
        LET once == Rotate(argB, hist.turn)
        IN  /\ argA = [call.before EXCEPT !.Rotation = call.before.Rotation + call.angle]
            /\ argA = once
            /\ getTransformedVertices(argA) = getTransformedVertices(once)
            /\ getTransformedVertices(SetRotation(argA, argA.Rotation % TwoPi))
                  = getTransformedVertices(once)
            /\ (call.before.Rotation = 0 /\ call.angle = TwoPi \div 4)
                  => argA.Rotation = TwoPi \div 4

\* a quarter turn and then a turn step, on an object that was at rotation 0
C21_Witness ==
    /\ call.fn = "Rotate"
    /\ hist.turns = 2
    /\ argB.Rotation = 0
    /\ call.before.Rotation = TwoPi \div 4
    /\ call.angle = rotationSpeed
    /\ argA.Rotation = TwoPi \div 4 + rotationSpeed
    /\ getTransformedVertices(argA) # getTransformedVertices(argB)
    /\ getTransformedVertices(argA) # getTransformedVertices(call.before)

----------------------------------------------------------------------------
(* Properties of the order and the effects of a tick *)

\* C22: a Playing tick handles the input, updates the player with wrap,
\* updates every asteroid with wrap, moves and prunes the bullets, resolves
\* the bullets against the asteroids, checks the player against the asteroids
\* and checks the roster for a win, in this order.  So a bullet spawned in
\* the tick is moved in the same tick and can hit in it, the hits are decided
\* on the positions after the moves, and the player is checked against the
\* roster the bullet resolution left, children of the tick included.
C22_TickOrder ==
    [][ (state = "Playing" /\ ticks' = ticks + 1) =>
            LET input == handlePlayerInput(Session, probe'.keys, now')
                b == probe'.before
                m == probe'.mid
            IN  /\ b.player = Update(input.player, screenWidth, screenHeight, TRUE)
                /\ b.asteroids = [i \in 1..Len(asteroids) |->
                                     Update(asteroids[i], screenWidth, screenHeight, TRUE)]
                /\ \A i \in 1..Len(b.bullets) :
                      \E j \in 1..Len(input.bullets) : b.bullets[i] = MovedBullet(input.bullets[j])
                /\ b.score = score /\ b.state = "Playing"
                /\ (Hitting(b) # {}) <=> (m.score = score + 1)
                /\ (Hitting(b) = {}) <=> (m = b)
                /\ m.player = b.player /\ m.state = "Playing"
                /\ PlayerCollides(m) <=> gameOverReason' = "GAME OVER"
                /\ asteroids' = m.asteroids /\ bullets' = m.bullets /\ score' = m.score
                /\ (Len(m.asteroids) = 0) <=> gameOverReason' = "YOU WIN!" ]_vars

\* the first tick of a session: the bullet spawned in it was moved onto an
\* asteroid and resolved in the same tick
C22_Witness ==
    /\ PlayingTick
    /\ ticks = 1
    /\ lastBulletTime = now
    /\ Len(probe.before.bullets) = 1
    /\ Hitting(probe.before) = {1}
    /\ score = 1
    /\ bullets = << >>
    /\ Len(asteroids) > 3

\* C23: after the session went to GameOver with "GAME OVER", every further
\* tick without a restart advances the fade started on the player: the
\* progress grows by 1/60, the colour is the interpolation from the flash
\* colour to blue at that progress, and with the 60th such tick the colour
\* is blue and the fade is inactive.
C23_GameOverFade ==
    [][ ( /\ state = "GameOver" /\ gameOverReason = "GAME OVER"
          /\ ticks' = ticks + 1
          /\ state' = "GameOver"
          /\ player.IsFading )
        => /\ player'.FadeProgress = player.FadeProgress + 1
           /\ IF player'.FadeProgress < 60
              THEN /\ player'.IsFading
                   /\ player'.Color = interpolateColor(RedFlash, Blue, player'.FadeProgress, 60)
              ELSE /\ ~player'.IsFading
                   /\ player'.Color = Blue ]_vars

\* the snapshots of a trail from the oldest to the most recent: pushes go to
\* the front, so the oldest is the last element
OldestFirst(trail) == [ i \in 1..Len(trail) |-> trail[Len(trail) + 1 - i] ]

\* C24: one Draw call strokes the trail snapshots from the oldest to the most
\* recent, and then the live polygon, which is stroked last.
C24_StrokeOrder ==
    (call.fn = "Draw" /\ Len(call.before.Vertices) >= 3)
        => call.strokes = OldestFirst(call.before.Trail)
                              \o <<getTransformedVertices(call.before)>>

\* the linear interpolation s*(1-p) + e*p of one channel at p = k/N, as the
\* exact fraction Mix/N, and its nearest integer
Mix(s, e, k, N) == s * (N - k) + e * k
Halfway(s, e, k, N) == (2 * Mix(s, e, k, N) + N) % (2 * N) = 0
Nearest(s, e, k, N) == (2 * Mix(s, e, k, N) + N) \div (2 * N)

\* C25: while a fade is active, each channel of the colour set by Update is
\* the linear interpolation start*(1-p) + end*p of that channel rounded to the
\* nearest integer, wherever the interpolated value is not exactly halfway
\* between two integers.
C25_FadeRoundsToNearest ==
    (call.fn = "Update" /\ call.before.IsFading /\ argA.IsFading /\ argA.FadeTicks > 0)
        => \A c \in 1..4 :
              \/ Halfway(argA.FadeStartColor[c], argA.FadeEndColor[c],
                         argA.FadeProgress, argA.FadeTicks)
              \/ argA.Color[c] = Nearest(argA.FadeStartColor[c], argA.FadeEndColor[c],
                                         argA.FadeProgress, argA.FadeTicks)

\* q is p but for its draw counter and its trail
SameButDrawn(p, q) == [q EXCEPT !.drawCount = p.drawCount, !.Trail = p.Trail] = p

\* C26: a call to Game.Draw leaves the state flag, the reason, the score, the
\* membership and order of the asteroid and bullet rosters, and every
\* polygon's vertices, position, velocity, rotation, rotation speed, scale,
\* colour and fade state unchanged; it changes only draw counters and trails.
C26_DrawReadOnly ==
    probe.op = "Draw" =>
        /\ state = probe.entry.state
        /\ gameOverReason = probe.entry.gameOverReason
        /\ score = probe.entry.score
        /\ lastBulletTime = probe.entry.lastBulletTime
        /\ SameButDrawn(probe.entry.player, player)
        /\ Len(asteroids) = Len(probe.entry.asteroids)
        /\ \A i \in 1..Len(asteroids) : SameButDrawn(probe.entry.asteroids[i], asteroids[i])
        /\ Len(bullets) = Len(probe.entry.bullets)
        /\ \A i \in 1..Len(bullets) : SameButDrawn(probe.entry.bullets[i], bullets[i])

\* the 4th Draw of a session with a bullet in flight and fading fragments:
\* the player got its first trail snapshot, a fragment is still on its fade
C26_Witness ==
    /\ probe.op = "Draw"
    /\ state = "Playing"
    /\ Len(bullets) > 0
    /\ probe.entry.player.Trail = <<>>
    /\ Len(player.Trail) = 1
    /\ \E i \in 1..Len(asteroids) :
          /\ asteroids[i].IsFading
          /\ asteroids[i].drawCount > 0
          /\ asteroids[i].drawCount < player.drawCount

\* the score and the size of the roster, in one state
ScoreAndRoster ==
    /\ score >= 0
    /\ Len(asteroids) <= 3 + score
    /\ (Len(asteroids) + score) % 2 = 1
    /\ (state = "GameOver" /\ gameOverReason = "YOU WIN!")
          => (score >= 3 /\ score % 2 = 1)

\* C27: since the last (re)start the score is non-negative and never
\* decreases, the number of asteroids is at most 3 + score, and the number of
\* asteroids plus the score is odd; a session is in GameOver("YOU WIN!") only
\* with an odd score of at least 3.
C27_ScoreAndRoster ==
    /\ ScoreAndRoster
    /\ [][ /\ ScoreAndRoster'
           /\ \/ probe'.op = "updateGameOver" /\ state' = "Playing"
              \/ score' >= score ]_vars

\* a session won with 9 points: three asteroids split once each, and the six
\* fragments destroyed
C27_Witness ==
    /\ state = "GameOver" /\ gameOverReason = "YOU WIN!"
    /\ probe.op = "updatePlaying"
    /\ score = 9
    /\ Len(asteroids) = 0
    /\ Len(probe.before.asteroids) = 1

\* p is on the screen, edges included
Inside(p) ==
    /\ 0 <= p.Position.X /\ p.Position.X <= screenWidth
    /\ 0 <= p.Position.Y /\ p.Position.Y <= screenHeight

\* asteroid i was created by the split of this tick: it is not one of the
\* asteroids that the tick moved
Fragment(i) ==
    \A j \in 1..Len(probe.before.asteroids) : asteroids[i] # probe.before.asteroids[j]

\* C30 (as stated): at the end of every Playing tick the player and every
\* asteroid of the roster, the asteroids created by a split in that tick
\* included, have their position inside [0, width] x [0, height].
C30_AllInside ==
    PlayingTick =>
        /\ Inside(player)
        /\ \A i \in 1..Len(asteroids) : Inside(asteroids[i])

\* C30 (amended): at the end of every Playing tick the player and every
\* asteroid that the tick moved are inside [0, width] x [0, height]; an
\* asteroid created by a split in that tick may lie outside.
C30_MovedInside ==
    PlayingTick =>
        /\ Inside(player)
        /\ \A i \in 1..Len(asteroids) : Fragment(i) \/ Inside(asteroids[i])

\* an asteroid drifted over the right edge and the tick wrapped it to the
\* left edge
C30_Witness ==
    /\ PlayingTick
    /\ \E i \in 1..Len(asteroids) :
          /\ ~Fragment(i)
          /\ asteroids[i].Velocity.X > 0
          /\ asteroids[i].Position.X <= asteroids[i].Velocity.X
          /\ probe.before.asteroids[i] = asteroids[i]

\* C29: while the session stays Playing, every bullet is eventually removed
\* from the roster: whenever the roster holds bullets, later the session has
\* left Playing or the roster is empty (no shot is fired after the first
\* ticks, so an empty roster means every earlier bullet was removed).
C29_BulletsLeave ==
    (state = "Playing" /\ bullets # <<>>) ~> (state # "Playing" \/ bullets = <<>>)

\* a shot was fired by the ship sliding backwards, no asteroid was hit, and
\* the roster is empty again
C29_Witness ==
    /\ state = "Playing"
    /\ ticks = MaxLiveShots
    /\ lastBulletTime > 0
    /\ score = 0
    /\ bullets = <<>>
    /\ player.Position.Y # 30000

\* the session as NewGame or Restart has just left it
JustStarted == ticks = 0 \/ (probe.op = "updateGameOver" /\ state = "Playing")

\* C28: right after NewGame or Restart the player collides with none of the
\* 3 asteroids, and a session without any input is not in
\* GameOver("GAME OVER") after its first tick.
C28_SafeStart ==
    /\ JustStarted => ~PlayerCollides(Session)
    /\ (PlayingTick /\ ticks = 1 /\ probe.keys = {}) => gameOverReason # "GAME OVER"

=============================================================================
